---- MODULE Spec2Model ----
(***************************************************************************)
(* Hierarchical robot demo (Hierarchy.js): the matrix Stack, the keypress  *)
(* handler that updates the joint angles and placement matrices, and the   *)
(* hand-written depth-first traversal draw().                              *)
(*                                                                         *)
(* Arithmetic is exact.  Every angle is a multiple of 15 degrees, so every *)
(* matrix entry lies in Q(sqrt2, sqrt3).  A number is the tuple            *)
(* <<a, b, c, d>> standing for a + b*sqrt2 + c*sqrt3 + d*sqrt6, and a      *)
(* matrix is [d |-> den, e |-> 16 numbers in column-major order], standing *)
(* for the entries e[i] / den, kept in lowest terms, so that equality of   *)
(* two model matrices is equality of the real matrices.                    *)
(***************************************************************************)
EXTENDS Integers, Sequences, FiniteSets, TLC

\* ------------------------------------------------------------------------
\* Bounds of the model.
\* ------------------------------------------------------------------------
\* Key presses explored in the full program (key handler and frames).
MaxPresses == 1
\* Key presses explored when only the key handler runs.
MaxKeySeq == 2
\* Stack calls explored when the Stack class is driven on its own.
MaxCalls == 5
\* The mouse events delivered to the canvas of the 2D demo.
MaxMouse == 3
\* The method calls and mouse events a SimpleRotator is driven with.
MaxRotOps == 3

MaxSquareKeys == 3

\* ------------------------------------------------------------------------
\* Exact numbers a + b*sqrt2 + c*sqrt3 + d*sqrt6.
\* ------------------------------------------------------------------------
Abs(x) == IF x < 0 THEN -x ELSE x

RECURSIVE Gcd(_, _)
Gcd(a, b) == IF b = 0 THEN a ELSE Gcd(b, a % b)

Rat(n) == <<n, 0, 0, 0>>

NAdd(x, y) == <<x[1] + y[1], x[2] + y[2], x[3] + y[3], x[4] + y[4]>>

NNeg(x) == <<-x[1], -x[2], -x[3], -x[4]>>

NMul(x, y) ==
  << x[1]*y[1] + 2*x[2]*y[2] + 3*x[3]*y[3] + 6*x[4]*y[4],
     x[1]*y[2] + x[2]*y[1] + 3*x[3]*y[4] + 3*x[4]*y[3],
     x[1]*y[3] + x[3]*y[1] + 2*x[2]*y[4] + 2*x[4]*y[2],
     x[1]*y[4] + x[4]*y[1] + x[2]*y[3] + x[3]*y[2] >>

\* 4*cos(deg) for deg a multiple of 15 (Math.cos of the angle in radians).
Cos4(deg) ==
  LET a == deg % 360
      b == IF a > 180 THEN 360 - a ELSE a
      c == IF b > 90 THEN 180 - b ELSE b
      v == CASE c = 0  -> <<4, 0, 0, 0>>
             [] c = 15 -> <<0, 1, 0, 1>>
             [] c = 30 -> <<0, 0, 2, 0>>
             [] c = 45 -> <<0, 2, 0, 0>>
             [] c = 60 -> <<2, 0, 0, 0>>
             [] c = 75 -> <<0, -1, 0, 1>>
             [] c = 90 -> <<0, 0, 0, 0>>
  IN IF b > 90 THEN NNeg(v) ELSE v

\* 4*sin(deg) = 4*cos(deg - 90).
Sin4(deg) == Cos4(deg - 90)

\* ------------------------------------------------------------------------
\* Matrix4 of cuon-matrix.js (column-major, index 1..16 for elements[0..15]).
\* ------------------------------------------------------------------------
RECURSIVE GcdAll(_, _, _)
GcdAll(e, i, g) ==
  IF g = 1 \/ i > 16 THEN g
  ELSE GcdAll(e, i + 1,
         Gcd(Gcd(Gcd(Gcd(g, Abs(e[i][1])), Abs(e[i][2])), Abs(e[i][3])), Abs(e[i][4])))

\* Lowest terms: the canonical form of entries / denominator.
Normalize(m) ==
  LET g == GcdAll(m.e, 1, m.d)
  IN IF g = 1 THEN m
     ELSE [d |-> m.d \div g,
           e |-> [i \in 1..16 |-> <<m.e[i][1] \div g, m.e[i][2] \div g,
                                    m.e[i][3] \div g, m.e[i][4] \div g>>]]

\* new Matrix4(): the identity.
Identity ==
  [d |-> 1, e |-> [n \in 1..16 |-> IF (n - 1) % 5 = 0 THEN Rat(1) ELSE Rat(0)]]

\* The value JavaScript yields where nothing is returned or stored.
Undefined == [undefined |-> TRUE]

\* new Matrix4(src): a copy of src, the identity when src is no matrix.
Matrix4(src) == IF src = Undefined THEN Identity ELSE src

\* Matrix4.setTranslate(x, y, z), the arguments given in tenths
\* (SetTranslate(65, 20, 0) is setTranslate(6.5, 2, 0)).
SetTranslate(x, y, z) ==
  Normalize([d |-> 10,
             e |-> [n \in 1..16 |->
                      CASE n = 13 -> Rat(x)
                        [] n = 14 -> Rat(y)
                        [] n = 15 -> Rat(z)
                        [] n \in {1, 6, 11, 16} -> Rat(10)
                        [] OTHER -> Rat(0)]])

\* Matrix4.setScale(x, y, z).
SetScale(x, y, z) ==
  [d |-> 1,
   e |-> [n \in 1..16 |->
            CASE n = 1 -> Rat(x)
              [] n = 6 -> Rat(y)
              [] n = 11 -> Rat(z)
              [] n = 16 -> Rat(1)
              [] OTHER -> Rat(0)]]

\* Matrix4.setRotate(angle, x, y, z) for the two axes the program uses:
\* axis "x" is (1, 0, 0) and axis "y" is (0, 1, 0).
SetRotate(deg, axis) ==
  LET c == Cos4(deg)
      s == Sin4(deg)
  IN Normalize([d |-> 4,
       e |-> [n \in 1..16 |->
                IF axis = "x"
                THEN CASE n \in {1, 16} -> Rat(4)
                       [] n \in {6, 11} -> c
                       [] n = 7 -> s
                       [] n = 10 -> NNeg(s)
                       [] OTHER -> Rat(0)
                ELSE CASE n \in {6, 16} -> Rat(4)
                       [] n \in {1, 11} -> c
                       [] n = 9 -> s
                       [] n = 3 -> NNeg(s)
                       [] OTHER -> Rat(0)]])

\* Matrix4.multiply(other) (concat): this * other.
Multiply(a, b) ==
  Normalize([d |-> a.d * b.d,
    e |-> [n \in 1..16 |->
       LET i == (n - 1) % 4
           j == (n - 1) \div 4
       IN NAdd(NAdd(NMul(a.e[i + 1], b.e[4*j + 1]), NMul(a.e[i + 5], b.e[4*j + 2])),
               NAdd(NMul(a.e[i + 9], b.e[4*j + 3]), NMul(a.e[i + 13], b.e[4*j + 4])))]])

\* Matrix4.rotate(angle, x, y, z): this * setRotate(angle, x, y, z).
Rotate(m, deg, axis) == Multiply(m, SetRotate(deg, axis))

\* Matrix4.translate(x, y, z), in tenths: this * setTranslate(x, y, z).
Translate(m, x, y, z) == Multiply(m, SetTranslate(x, y, z))

\* ------------------------------------------------------------------------
\* class Stack.
\* ------------------------------------------------------------------------
\* constructor: elements = [], t = 0.
StackNew == [elements |-> <<>>, t |-> 0]

\* elements[i] = v on a JavaScript array (i counted from 0): an index inside
\* the array overwrites, the index one past the end appends.
ArraySet(elements, i, v) ==
  IF i >= 0 /\ i < Len(elements) THEN [elements EXCEPT ![i + 1] = v]
  ELSE IF i = Len(elements) THEN Append(elements, v)
  ELSE elements

\* elements[i] read from a JavaScript array: undefined outside the array.
ArrayGet(elements, i) ==
  IF i >= 0 /\ i < Len(elements) THEN elements[i + 1] ELSE Undefined

\* push(m): this.elements[this.t++] = m.
StackPush(s, m) ==
  [stack |-> [elements |-> ArraySet(s.elements, s.t, m), t |-> s.t + 1],
   ret |-> Undefined,
   log |-> {}]

\* Faulty variant: top() reads elements[t], one past the top.
StackTopOffByOne(s) ==
  IF s.t <= 0
  THEN [stack |-> s, ret |-> Undefined,
        log |-> {"top = ", "Warning: stack underflow"}]
  ELSE [stack |-> s, ret |-> ArrayGet(s.elements, s.t), log |-> {}]

\* top(): warns on an empty stack, else returns elements[t - 1].
StackTop(s) ==
  IF s.t <= 0
  THEN [stack |-> s, ret |-> Undefined,
        log |-> {"top = ", "Warning: stack underflow"}]
  ELSE [stack |-> s, ret |-> ArrayGet(s.elements, s.t - 1), log |-> {}]

\* Faulty variant: pop() returns and clears the top element but leaves t as it was.
StackPopNoDecrement(s) ==
  IF s.t <= 0
  THEN [stack |-> s, ret |-> Undefined, log |-> {"Warning: stack underflow"}]
  ELSE [stack |-> [elements |-> ArraySet(s.elements, s.t - 1, Undefined),
                   t |-> s.t],
        ret |-> ArrayGet(s.elements, s.t - 1),
        log |-> {}]

\* Faulty variant: pop() warns on an empty stack and then goes on to pop (no else).
StackPopFallsThrough(s) ==
  [stack |-> [elements |-> ArraySet(s.elements, s.t - 1, Undefined),
              t |-> s.t - 1],
   ret |-> ArrayGet(s.elements, s.t - 1),
   log |-> IF s.t <= 0 THEN {"Warning: stack underflow"} ELSE {}]

\* Faulty variant: pop() tests t < 0 where the code tests t <= 0.
StackPopBelowZero(s) ==
  IF s.t < 0
  THEN [stack |-> s, ret |-> Undefined, log |-> {"Warning: stack underflow"}]
  ELSE [stack |-> [elements |-> ArraySet(s.elements, s.t - 1, Undefined),
                   t |-> s.t - 1],
        ret |-> ArrayGet(s.elements, s.t - 1),
        log |-> {}]

\* pop(): warns on an empty stack, else t--, returns elements[t] and clears it.
StackPop(s) ==
  IF s.t <= 0
  THEN [stack |-> s, ret |-> Undefined, log |-> {"Warning: stack underflow"}]
  ELSE [stack |-> [elements |-> ArraySet(s.elements, s.t - 1, Undefined),
                   t |-> s.t - 1],
        ret |-> ArrayGet(s.elements, s.t - 1),
        log |-> {}]

\* isEmpty(): t <= 0.
StackIsEmpty(s) == s.t <= 0

\* ------------------------------------------------------------------------
\* The robot: fourteen parts, their placement and local matrices.
\* ------------------------------------------------------------------------
Parts ==
  {"torso", "shoulderLeft", "shoulderRight", "armLeft", "armRight",
   "handLeft", "handRight", "head", "legLeft", "legRight",
   "footLeft", "footRight", "ankleRight", "ankleLeft"}

\* The placement matrices as the script creates them.
InitMatrix ==
  [p \in Parts |->
     CASE p = "torso"         -> SetTranslate(0, 0, 0)
       [] p = "shoulderLeft"  -> SetTranslate(65, 20, 0)
       [] p = "shoulderRight" -> SetTranslate(-65, 20, 0)
       [] p = "armLeft"       -> SetTranslate(0, -50, 0)
       [] p = "armRight"      -> SetTranslate(0, -50, 0)
       [] p = "handLeft"      -> SetTranslate(0, -40, 0)
       [] p = "handRight"     -> SetTranslate(0, -40, 0)
       [] p = "head"          -> SetTranslate(0, 70, 0)
       [] p = "legLeft"       -> SetTranslate(-20, -70, 0)
       [] p = "legRight"      -> SetTranslate(20, -70, 0)
       [] p = "footLeft"      -> SetTranslate(0, -20, 16)
       [] p = "footRight"     -> SetTranslate(0, -20, 16)
       [] p = "ankleRight"    -> SetTranslate(0, -40, 0)
       [] p = "ankleLeft"     -> SetTranslate(0, -40, 0)]

\* The local (scale) matrices as the script creates them.
InitMatrixLocal ==
  [p \in Parts |->
     CASE p = "torso"         -> SetScale(10, 10, 5)
       [] p = "shoulderLeft"  -> SetScale(3, 5, 2)
       [] p = "shoulderRight" -> SetScale(3, 5, 2)
       [] p = "armRight"      -> SetScale(3, 5, 2)
       [] p = "armLeft"       -> SetScale(3, 5, 2)
       [] p = "handLeft"      -> SetScale(1, 3, 3)
       [] p = "handRight"     -> SetScale(1, 3, 3)
       [] p = "head"          -> SetScale(4, 4, 4)
       [] p = "legLeft"       -> SetScale(3, 4, 2)
       [] p = "legRight"      -> SetScale(3, 4, 2)
       [] p = "footLeft"      -> SetScale(3, 1, 5)
       [] p = "footRight"     -> SetScale(3, 1, 5)
       [] p = "ankleLeft"     -> SetScale(3, 4, 2)
       [] p = "ankleRight"    -> SetScale(3, 4, 2)]

\* ------------------------------------------------------------------------
\* handleKeyPress: the cases of its switch.
\* ------------------------------------------------------------------------
\* One case: the part whose angle changes, the change, the axis of rotation,
\* the pivot translation (tenths; used with axis "x" only) and the offset
\* given to setTranslate on the part's matrix (tenths).
Case(part, delta, axis, pivot, offset) ==
  [part |-> part, delta |-> delta, axis |-> axis, pivot |-> pivot, offset |-> offset]

BoundKeys ==
  {"t", "T", "s", "S", "a", "A", "e", "E", "h", "H", "Q", "q",
   "l", "L", "d", "D", "f", "F", "g", "G", "j", "J", "k", "K"}

KeyCase(ch) ==
  CASE ch = "t" -> Case("torso", 15, "y", <<0, 0, 0>>, <<0, 0, 0>>)
    [] ch = "T" -> Case("torso", -15, "y", <<0, 0, 0>>, <<0, 0, 0>>)
    [] ch = "s" -> Case("shoulderRight", 15, "x", <<0, 20, 0>>, <<-65, 20, 0>>)
    [] ch = "S" -> Case("shoulderRight", -15, "x", <<0, 20, 0>>, <<-65, 20, 0>>)
    [] ch = "a" -> Case("armRight", 15, "x", <<0, 25, 10>>, <<0, -50, 0>>)
    [] ch = "A" -> Case("armRight", -15, "x", <<0, 25, 10>>, <<0, -50, 0>>)
    [] ch = "e" -> Case("armLeft", 15, "x", <<0, 25, 10>>, <<0, -50, 0>>)
    [] ch = "E" -> Case("armLeft", -15, "x", <<0, 25, 10>>, <<0, -50, 0>>)
    [] ch = "h" -> Case("handLeft", 15, "y", <<0, 0, 0>>, <<0, -40, 0>>)
    [] ch = "H" -> Case("handLeft", -15, "y", <<0, 0, 0>>, <<0, -40, 0>>)
    [] ch = "Q" -> Case("handRight", 15, "y", <<0, 0, 0>>, <<0, -40, 0>>)
    [] ch = "q" -> Case("handRight", -15, "y", <<0, 0, 0>>, <<0, -40, 0>>)
    [] ch = "l" -> Case("head", 15, "y", <<0, 0, 0>>, <<0, 70, 0>>)
    [] ch = "L" -> Case("head", -15, "y", <<0, 0, 0>>, <<0, 70, 0>>)
    [] ch = "d" -> Case("shoulderLeft", 15, "x", <<0, 20, 0>>, <<65, 20, 0>>)
    [] ch = "D" -> Case("shoulderLeft", -15, "x", <<0, 20, 0>>, <<65, 20, 0>>)
    [] ch = "f" -> Case("legRight", 15, "x", <<0, 20, 0>>, <<30, -70, 0>>)
    [] ch = "F" -> Case("legRight", -15, "x", <<0, 20, 0>>, <<30, -70, 0>>)
    [] ch = "g" -> Case("legLeft", 15, "x", <<0, 20, 0>>, <<-20, -70, 0>>)
    [] ch = "G" -> Case("legLeft", -15, "x", <<0, 20, 0>>, <<-20, -70, 0>>)
    [] ch = "j" -> Case("ankleLeft", 15, "x", <<0, 20, 0>>, <<0, -40, 0>>)
    [] ch = "J" -> Case("ankleLeft", -15, "x", <<0, 20, 0>>, <<0, -40, 0>>)
    [] ch = "k" -> Case("ankleRight", 15, "x", <<0, 20, 0>>, <<0, -40, 0>>)
    [] ch = "K" -> Case("ankleRight", -15, "x", <<0, 20, 0>>, <<0, -40, 0>>)

\* The matrix a case stores for the new angle a.  Axis "y":
\*   M.setTranslate(offset).rotate(a, 0, 1, 0);
\* axis "x":
\*   cur = new Matrix4().setTranslate(pivot).rotate(-a, 1, 0, 0).translate(-pivot);
\*   M.setTranslate(offset).multiply(cur).
CaseMatrix(c, a) ==
  IF c.axis = "y"
  THEN Rotate(SetTranslate(c.offset[1], c.offset[2], c.offset[3]), a, "y")
  ELSE LET cur == Translate(Rotate(SetTranslate(c.pivot[1], c.pivot[2], c.pivot[3]),
                                   -a, "x"),
                            -c.pivot[1], -c.pivot[2], -c.pivot[3])
       IN Multiply(SetTranslate(c.offset[1], c.offset[2], c.offset[3]), cur)

\* Faulty variant: the matrix is computed from the angle before it is changed.
KeyEffectStaleAngle(ch, ang, mat) ==
  IF ch \notin BoundKeys THEN [angle |-> ang, matrix |-> mat]
  ELSE LET c == KeyCase(ch)
           a == ang[c.part] + c.delta
       IN [angle |-> [ang EXCEPT ![c.part] = a],
           matrix |-> [mat EXCEPT ![c.part] = CaseMatrix(c, ang[c.part])]]

\* Faulty variant: the case of the key runs on into the case of "l".
KeyEffectFallsThrough(ch, ang, mat) ==
  IF ch \notin BoundKeys THEN [angle |-> ang, matrix |-> mat]
  ELSE LET c == KeyCase(ch)
           a == ang[c.part] + c.delta
           ang1 == [ang EXCEPT ![c.part] = a]
           l == KeyCase("l")
           b == ang1[l.part] + l.delta
       IN [angle |-> [ang1 EXCEPT ![l.part] = b],
           matrix |-> [mat EXCEPT ![c.part] = CaseMatrix(c, a),
                                  ![l.part] = CaseMatrix(l, b)]]

\* Faulty variant: the default case turns the torso.
KeyEffectDefaultTurnsTorso(ch, ang, mat) ==
  LET c == IF ch \in BoundKeys THEN KeyCase(ch) ELSE KeyCase("t")
      a == ang[c.part] + c.delta
  IN [angle |-> [ang EXCEPT ![c.part] = a],
      matrix |-> [mat EXCEPT ![c.part] = CaseMatrix(c, a)]]

\* Faulty variant: every part but the torso is turned by its own angle and
\* the torso's.
KeyEffectAddsTorsoAngle(ch, ang, mat) ==
  IF ch \notin BoundKeys THEN [angle |-> ang, matrix |-> mat]
  ELSE LET c == KeyCase(ch)
           a == ang[c.part] + c.delta
           turn == IF c.part = "torso" THEN a ELSE a + ang["torso"]
       IN [angle |-> [ang EXCEPT ![c.part] = a],
           matrix |-> [mat EXCEPT ![c.part] = CaseMatrix(c, turn)]]

\* The effect of handleKeyPress on the angles and the placement matrices,
\* given as the pair after the key ch.
KeyEffect(ch, ang, mat) ==
  IF ch \notin BoundKeys THEN [angle |-> ang, matrix |-> mat]
  ELSE LET c == KeyCase(ch)
           a == ang[c.part] + c.delta
       IN [angle |-> [ang EXCEPT ![c.part] = a],
           matrix |-> [mat EXCEPT ![c.part] = CaseMatrix(c, a)]]

\* ------------------------------------------------------------------------
\* The key list of the page: the part each line names for its two keys.
\* ------------------------------------------------------------------------
ListedPart(ch) ==
  CASE ch \in {"l", "L"} -> "head"
    [] ch \in {"t", "T"} -> "torso"
    [] ch \in {"s", "S"} -> "shoulderRight"
    [] ch \in {"a", "A"} -> "armRight"
    [] ch \in {"q", "Q"} -> "handRight"
    [] ch \in {"g", "G"} -> "legRight"
    [] ch \in {"k", "K"} -> "ankleRight"
    [] ch \in {"d", "D"} -> "shoulderLeft"
    [] ch \in {"e", "E"} -> "armLeft"
    [] ch \in {"f", "F"} -> "legLeft"
    [] ch \in {"j", "J"} -> "ankleLeft"
    [] ch \in {"h", "H"} -> "handLeft"

ListedKeys ==
  {"l", "L", "t", "T", "s", "S", "a", "A", "q", "Q", "g", "G",
   "k", "K", "d", "D", "e", "E", "f", "F", "j", "J", "h", "H"}

\* ------------------------------------------------------------------------
\* getChar(event).
\* ------------------------------------------------------------------------
\* JavaScript's null as the value of getChar, apart from every string of one
\* character.
Null == "null"

\* event.which when it is null or undefined.
NoWhich == -1

Lower ==
  <<"a", "b", "c", "d", "e", "f", "g", "h", "i", "j", "k", "l", "m",
    "n", "o", "p", "q", "r", "s", "t", "u", "v", "w", "x", "y", "z">>

Upper ==
  <<"A", "B", "C", "D", "E", "F", "G", "H", "I", "J", "K", "L", "M",
    "N", "O", "P", "Q", "R", "S", "T", "U", "V", "W", "X", "Y", "Z">>

\* String.fromCharCode on the codes of the space and of the letters.
FromCharCode(n) ==
  IF n \in 97..122 THEN Lower[n - 96]
  ELSE IF n \in 65..90 THEN Upper[n - 64]
  ELSE " "

KeyEvent(which, keyCode, charCode) ==
  [which |-> which, keyCode |-> keyCode, charCode |-> charCode]

GetChar(event) ==
  IF event.which = NoWhich THEN FromCharCode(event.keyCode)
  ELSE IF event.which # 0 /\ event.charCode # 0 THEN FromCharCode(event.which)
  ELSE Null

\* The codes of the characters typed: the bound keys, "x" and the space.
Codes == {n \in {32} \cup (65..90) \cup (97..122) :
            FromCharCode(n) \in BoundKeys \cup {"x", " "}}

\* The keypress events delivered: a character key as browsers report it
\* (which = charCode = the character's code); a character key as old
\* Internet Explorer reports it (no which, the code in keyCode); special
\* keys (F5 and the left arrow with which = 0, Enter with charCode = 0).
Events ==
  {KeyEvent(c, c, c) : c \in Codes}
    \cup {KeyEvent(NoWhich, c, 0) : c \in {116, 120}}
    \cup {KeyEvent(0, 116, 0), KeyEvent(0, 37, 0), KeyEvent(13, 13, 0)}

\* ------------------------------------------------------------------------
\* draw(): the statements on the matrix stack, in program order.
\* ------------------------------------------------------------------------
\* "pushRoot" p : s.push(pMatrix)
\* "push" p     : s.push(new Matrix4(s.top()).multiply(pMatrix))
\* "render" p   : renderCube(s, pMatrixLocal)
\* "pop"        : s.pop()
Ins(op, part) == [op |-> op, part |-> part]

PopIns == Ins("pop", "torso")

\* The torso: lines 561-562.
TorsoIns ==
  << Ins("pushRoot", "torso"),     Ins("render", "torso") >>

\* Left shoulder, arm and hand: lines 564-578.
ArmLeftIns ==
  << Ins("push", "shoulderLeft"),  Ins("render", "shoulderLeft"),
     Ins("push", "armLeft"),       Ins("render", "armLeft"),
     Ins("push", "handLeft"),      Ins("render", "handLeft"),
     PopIns, PopIns, PopIns >>

\* Right shoulder, arm and hand: lines 580-594.
ArmRightIns ==
  << Ins("push", "shoulderRight"), Ins("render", "shoulderRight"),
     Ins("push", "armRight"),      Ins("render", "armRight"),
     Ins("push", "handRight"),     Ins("render", "handRight"),
     PopIns, PopIns, PopIns >>

\* The head: lines 596-599.
HeadIns ==
  << Ins("push", "head"),          Ins("render", "head"),
     PopIns >>

\* Left leg, ankle and foot: lines 601-615.  Line 606 multiplies by
\* ankleRightMatrix and line 607 renders with ankleLeftMatrixLocal.
LegLeftIns ==
  << Ins("push", "legLeft"),       Ins("render", "legLeft"),
     Ins("push", "ankleRight"),    Ins("render", "ankleLeft"),
     Ins("push", "footLeft"),      Ins("render", "footLeft"),
     PopIns, PopIns, PopIns >>

\* Right leg, ankle and foot: lines 617-631.  Line 622 multiplies by
\* ankleLeftMatrix and line 623 renders with ankleRightMatrixLocal.
LegRightIns ==
  << Ins("push", "legRight"),      Ins("render", "legRight"),
     Ins("push", "ankleLeft"),     Ins("render", "ankleRight"),
     Ins("push", "footRight"),     Ins("render", "footRight"),
     PopIns, PopIns, PopIns >>

\* Faulty variant: the pop that closes the head's subtree is missing.
DrawProgramNoHeadPop ==
  TorsoIns \o ArmLeftIns \o ArmRightIns
    \o << Ins("push", "head"), Ins("render", "head") >>
    \o LegLeftIns \o LegRightIns \o << PopIns >>

\* Faulty variant: the left leg's block pasted for the right leg and not renamed.
DrawProgramLegTwice ==
  TorsoIns \o ArmLeftIns \o ArmRightIns \o HeadIns \o LegLeftIns \o LegLeftIns
    \o << PopIns >>

\* Lines 561-633; the last pop (line 633) removes the torso.
DrawProgram ==
  TorsoIns \o ArmLeftIns \o ArmRightIns \o HeadIns \o LegLeftIns \o LegRightIns
    \o << PopIns >>

\* ------------------------------------------------------------------------
\* The 2D demo: lengths and circleCircleIntersect.
\* ------------------------------------------------------------------------
\* Points are pairs of integers.  A length (a radius, the value of vec2d.len
\* or vec2d.dist) is kept as its square, an integer: the length itself is
\* the root of that number.
Vec(x, y) == <<x, y>>

VAdd(a, b) == <<a[1] + b[1], a[2] + b[2]>>

VSub(a, b) == <<a[1] - b[1], a[2] - b[2]>>

Dot(a, b) == a[1] * b[1] + a[2] * b[2]

\* vec2d.len(a) and vec2d.dist(a, b), as squares.
LenSq(a) == Dot(a, a)

DistSq(a, b) == LenSq(VSub(a, b))

\* a/b < c/d for a, c >= 0 and b, d > 0, by whole parts and then the
\* remainders turned over: no product is formed, so no number outgrows the
\* machine integers the checker computes with (JavaScript's numbers are
\* exact far beyond the products compared here).
RECURSIVE FracLess(_, _, _, _)
FracLess(a, b, c, d) ==
  IF a \div b # c \div d THEN a \div b < c \div d
  ELSE IF c % d = 0 THEN FALSE
  ELSE IF a % b = 0 THEN TRUE
  ELSE FracLess(d, c % d, b, a % b)

\* a*b < c*d for numbers that are not negative.
ProductLess(a, b, c, d) ==
  IF a = 0 \/ b = 0 THEN c > 0 /\ d > 0
  ELSE IF c = 0 \/ d = 0 THEN FALSE
  ELSE FracLess(a, c, d, b)

\* d > r1 + r2 for the lengths with squares dd, rr1, rr2: both sides are not
\* negative, so d > r1 + r2 iff dd > rr1 + rr2 + 2*r1*r2, that is iff
\* dd - rr1 - rr2 is positive and its square exceeds 4*rr1*rr2.
LongerThanSum(dd, rr1, rr2) ==
  LET rest == dd - rr1 - rr2
  IN rest > 0 /\ ProductLess(2 * rr1, 2 * rr2, rest, rest)

\* Faulty variant: circles that touch count as apart.
CircleCircleIntersectStrict(center1, radius1, center2, radius2) ==
  LET dd == DistSq(center1, center2)
      rest == dd - radius1 - radius2
  IN IF rest >= 0 /\ ~ProductLess(rest, rest, 2 * radius1, 2 * radius2)
     THEN FALSE
     ELSE TRUE

CircleCircleIntersect(center1, radius1, center2, radius2) ==
  IF LongerThanSum(DistSq(center1, center2), radius1, radius2)
  THEN FALSE
  ELSE TRUE

\* ------------------------------------------------------------------------
\* The 2D demo: polygons.
\* ------------------------------------------------------------------------
\* isosceles({basePoint, oppositeVertex}).
Isosceles(triangle) ==
  LET u == VSub(triangle.basePoint, triangle.oppositeVertex)
      v == <<-u[2], u[1]>>
      w == <<u[2], -u[1]>>
  IN <<triangle.oppositeVertex, VAdd(triangle.basePoint, v),
       VAdd(triangle.basePoint, w)>>

\* midPoints(center, width, height).
MidPoints(center, width, height) ==
  <<VAdd(center, <<width, 0>>), VAdd(center, <<0, height>>),
    VAdd(center, <<-width, 0>>), VAdd(center, <<0, -height>>)>>

\* rectangle(rect); rect.midPoints[0..3] are midPoints[1..4] here.
Rectangle(rect) ==
  LET delta == VSub(rect.midPoints[2], rect.center)
  IN <<VAdd(rect.midPoints[1], delta), VSub(rect.midPoints[1], delta),
       VSub(rect.midPoints[3], delta), VAdd(rect.midPoints[3], delta)>>

SetMin(S) == CHOOSE x \in S : \A y \in S : x <= y

SetMax(S) == CHOOSE x \in S : \A y \in S : y <= x

\* The normals SAT.Polygon keeps, one per edge: the edge turned a quarter.
\* SAT scales them to length 1, which changes no comparison made below.
Normals(poly) ==
  {LET e == VSub(poly[(i % Len(poly)) + 1], poly[i]) IN <<e[2], -e[1]>> :
     i \in 1..Len(poly)}

Projection(poly, axis) == {Dot(poly[i], axis) : i \in 1..Len(poly)}

\* SAT's isSeparatingAxis: the two ranges on the axis do not meet.
IsSeparatingAxis(a, b, axis) ==
  LET ra == Projection(a, axis)
      rb == Projection(b, axis)
  IN SetMin(ra) > SetMax(rb) \/ SetMin(rb) > SetMax(ra)

\* SAT.testPolygonPolygon: no normal of either polygon separates them.
TestPolygonPolygon(a, b) ==
  ~\E axis \in Normals(a) \cup Normals(b) : IsSeparatingAxis(a, b, axis)

ConvexPolysIntersect(p, p2) == TestPolygonPolygon(p, p2)

\* Twice the signed area of the triangle a, b, c.
Cross(a, b, c) ==
  (b[1] - a[1]) * (c[2] - a[2]) - (b[2] - a[2]) * (c[1] - a[1])

\* util2d.pointInConvexPoly: p lies on one side of every edge.
PointInConvexPoly(p, poly) ==
  LET side(i) == Cross(poly[i], poly[(i % Len(poly)) + 1], p)
  IN \/ \A i \in 1..Len(poly) : side(i) >= 0
     \/ \A i \in 1..Len(poly) : side(i) <= 0

\* util2d.distToSegment(p, a, b) <= radius, the radius given as its square:
\* the distance to the nearer end where the foot of the perpendicular falls
\* outside the segment, else the distance to the line.
DistToSegmentAtMost(p, a, b, radius) ==
  LET l2 == DistSq(a, b)
      along == Dot(VSub(p, a), VSub(b, a))
      across == Cross(a, b, p)
  IN IF l2 = 0 \/ along <= 0 THEN DistSq(p, a) <= radius
     ELSE IF along >= l2 THEN DistSq(p, b) <= radius
     ELSE ~ProductLess(radius, l2, Abs(across), Abs(across))

ConvexPolyCircleIntersect(center, radius, poly) ==
  \/ PointInConvexPoly(center, poly)
  \/ \E i \in 1..Len(poly) :
       DistToSegmentAtMost(center, poly[i], poly[(i % Len(poly)) + 1], radius)

\* ------------------------------------------------------------------------
\* The 2D demo: update().
\* ------------------------------------------------------------------------
\* The shapes: isos[1..3], rects[1..3], circs[1..3].
Shape(kind, k) == [kind |-> kind, k |-> k]

Shapes == {Shape(kind, k) : kind \in {"isos", "rects", "circs"}, k \in 1..3}

\* The order in which update() visits and draws the shapes.
DrawOrder ==
  <<Shape("isos", 1), Shape("isos", 2), Shape("isos", 3),
    Shape("rects", 1), Shape("rects", 2), Shape("rects", 3),
    Shape("circs", 1), Shape("circs", 2), Shape("circs", 3)>>

\* The geometry g is the record of the three arrays.  poly of a triangle or
\* a rectangle, as updateInfo leaves it.
Poly(g, a) ==
  IF a.kind = "isos" THEN Isosceles(g.isos[a.k]) ELSE Rectangle(g.rects[a.k])

\* The test update() makes between the shape a it is visiting and the other
\* shape b, with the arguments in the order of the code.
Hit(g, a, b) ==
  IF a.kind = "circs" /\ b.kind = "circs"
  THEN CircleCircleIntersect(g.circs[a.k].center, g.circs[a.k].radius,
                             g.circs[b.k].center, g.circs[b.k].radius)
  ELSE IF a.kind = "circs"
  THEN ConvexPolyCircleIntersect(g.circs[a.k].center, g.circs[a.k].radius, Poly(g, b))
  ELSE IF b.kind = "circs"
  THEN ConvexPolyCircleIntersect(g.circs[b.k].center, g.circs[b.k].radius, Poly(g, a))
  ELSE IF a.kind = "isos" /\ b.kind = "rects"
  THEN ConvexPolysIntersect(Poly(g, b), Poly(g, a))
  ELSE ConvexPolysIntersect(Poly(g, a), Poly(g, b))

\* Faulty variant: the visited shape keeps its color when nothing hits it.
VisitedColorKeepsOld(hits, old) == IF hits = {} THEN old ELSE "red"

\* The color of the visited shape after its tests: set to "black", then to
\* "red" by any test that succeeds.
VisitedColor(hits, old) == IF hits = {} THEN "black" ELSE "red"

\* One turn of the loops of update(): the shape a is tested against every
\* other shape and drawn.  st holds the colors and the colors drawn.
Visit(g, st, a) ==
  LET hits == {b \in Shapes \ {a} : Hit(g, a, b)}
      c == VisitedColor(hits, st.color[a])
  IN [color |-> [b \in Shapes |->
                   IF b = a THEN c ELSE IF b \in hits THEN "red" ELSE st.color[b]],
      drawn |-> [st.drawn EXCEPT ![a] = c]]

RECURSIVE VisitFrom(_, _, _)
VisitFrom(g, st, n) ==
  IF n > Len(DrawOrder) THEN st
  ELSE VisitFrom(g, Visit(g, st, DrawOrder[n]), n + 1)

\* updateInfo: the radius of each circle from its two anchors.
UpdateInfo(g) ==
  [g EXCEPT !.circs =
     [k \in 1..3 |-> [g.circs[k] EXCEPT
                        !.radius = LenSq(VSub(g.circs[k].control, g.circs[k].center))]]]

\* update(): the geometry, the colors and the colors drawn after it.
Update(g, col) ==
  LET g1 == UpdateInfo(g)
      st == VisitFrom(g1, [color |-> col, drawn |-> col], 1)
  IN [g |-> g1, color |-> st.color, drawn |-> st.drawn]

\* ------------------------------------------------------------------------
\* The 2D demo: the mouse handlers.
\* ------------------------------------------------------------------------
\* demo.onmousemove = null.
NoHandler == [kind |-> "none", k |-> 0, i |-> 0]

\* The handler installed for anchors[i] of a shape.
Handler(kind, k, i) == [kind |-> kind, k |-> k, i |-> i]

\* anchors[0..] of each shape, here anchors[1..].
Anchors(g, a) ==
  IF a.kind = "isos" THEN <<g.isos[a.k].basePoint, g.isos[a.k].oppositeVertex>>
  ELSE IF a.kind = "rects" THEN <<g.rects[a.k].center>> \o g.rects[a.k].midPoints
  ELSE <<g.circs[a.k].center, g.circs[a.k].control>>

\* The anchors in the order in which onmousedown tries them.
Candidates ==
  [n \in 1..6 |-> Handler("isos", ((n - 1) \div 2) + 1, (n - 1) % 2)]
    \o [n \in 1..15 |-> Handler("rects", ((n - 1) \div 5) + 1, (n - 1) % 5)]
    \o [n \in 1..6 |-> Handler("circs", ((n - 1) \div 2) + 1, (n - 1) % 2)]

\* vec2d.distance(mouse, anchor) <= 5.
Near(g, mouse, h) == DistSq(mouse, Anchors(g, Shape(h.kind, h.k))[h.i + 1]) <= 25

\* Faulty variant: with no anchor near, the handler of the last anchor is
\* installed.
HandlerAfterDownAlways(g, mouse) ==
  LET near == {n \in 1..Len(Candidates) : Near(g, mouse, Candidates[n])}
  IN Candidates[SetMax(near \cup {Len(Candidates)})]

\* The handler onmousedown leaves in demo.onmousemove: the one assigned last.
HandlerAfterDown(g, mouse) ==
  LET near == {n \in 1..Len(Candidates) : Near(g, mouse, Candidates[n])}
  IN IF near = {} THEN NoHandler ELSE Candidates[SetMax(near)]

\* Faulty variant: the opposite vertex is set from the base point as it was
\* before the move.
DragTriangleFromOldBase(triangle, i, delta) ==
  IF i = 0
  THEN LET v == VSub(triangle.oppositeVertex, triangle.basePoint)
       IN [basePoint |-> VAdd(triangle.basePoint, delta),
           oppositeVertex |-> VAdd(triangle.basePoint, v)]
  ELSE [triangle EXCEPT !.oppositeVertex = VAdd(@, delta)]

\* The move handler of a triangle.
DragTriangle(triangle, i, delta) ==
  IF i = 0
  THEN LET v == VSub(triangle.oppositeVertex, triangle.basePoint)
           b == VAdd(triangle.basePoint, delta)
       IN [basePoint |-> b, oppositeVertex |-> VAdd(b, v)]
  ELSE [triangle EXCEPT !.oppositeVertex = VAdd(@, delta)]

Sign(x) == IF x > 0 THEN 1 ELSE IF x < 0 THEN -1 ELSE 0

\* The length of a vector along an axis, and the vector of length 1 along it.
AxisLen(v) == Abs(v[1]) + Abs(v[2])

AxisUnit(v) == <<Sign(v[1]), Sign(v[2])>>

\* A midpoint may be dragged to a point level with the center or straight
\* above or below it: there the handler's quarter turn, normalize and scale
\* give whole numbers.
AlongAxis(v) == (v[1] = 0) # (v[2] = 0)

\* The move handler of a rectangle.  For a midpoint (i > 0): the midpoint
\* moves by delta, the opposite one by -delta, the next one goes to the
\* quarter turn of the moved one about the center, at its old distance, and
\* the last one opposite to that.
DragRect(rect, i, delta) ==
  IF i = 0
  THEN [center |-> VAdd(rect.center, delta),
        midPoints |-> [n \in 1..4 |-> VAdd(rect.midPoints[n], delta)]]
  ELSE LET nxt == (i % 4) + 1
           opp == ((i + 1) % 4) + 1
           prv == ((i - 2 + 4) % 4) + 1
           size == AxisLen(VSub(rect.midPoints[nxt], rect.center))
           vertex == VAdd(rect.midPoints[i], delta)
           p == VSub(vertex, rect.center)
           u == AxisUnit(<<p[2], -p[1]>>)
           turned == VAdd(rect.center, <<size * u[1], size * u[2]>>)
       IN [center |-> rect.center,
           midPoints |-> [n \in 1..4 |->
              IF n = i THEN vertex
              ELSE IF n = opp THEN VSub(rect.midPoints[opp], delta)
              ELSE IF n = nxt THEN turned
              ELSE VSub(VAdd(rect.center, rect.center), turned)]]

\* The move handler of a circle.
DragCircle(circle, i, delta) ==
  IF i = 0
  THEN [circle EXCEPT !.center = VAdd(@, delta), !.control = VAdd(@, delta)]
  ELSE [circle EXCEPT !.control = VAdd(@, delta)]

\* The geometry after the handler h has moved its anchor by delta.
Drag(g, h, delta) ==
  IF h.kind = "isos"
  THEN [g EXCEPT !.isos[h.k] = DragTriangle(@, h.i, delta)]
  ELSE IF h.kind = "rects"
  THEN [g EXCEPT !.rects[h.k] = DragRect(@, h.i, delta)]
  ELSE [g EXCEPT !.circs[h.k] = DragCircle(@, h.i, delta)]

\* polyDemo: the shapes as declared and as makePts completes them.
InitGeometry ==
  [isos |-> [k \in 1..3 |->
       [basePoint |-> Vec(150 * k - 50, 250), oppositeVertex |-> Vec(150 * k - 50, 200)]],
   rects |-> [k \in 1..3 |->
       [center |-> Vec(150 * k - 50, 380),
        midPoints |-> MidPoints(Vec(150 * k - 50, 380), 50, 80)]],
   circs |-> [k \in 1..3 |->
       [center |-> Vec(150 * k - 50, 100), control |-> Vec(150 * k - 50, 100 - 50),
        radius |-> 50 * 50]]]

\* The positions of the mouse in the events delivered to the canvas.
MousePositions ==
  {Vec(100, 100), Vec(103, 104), Vec(250, 100), Vec(200, 100), Vec(100, 50),
   Vec(100, 250), Vec(100, 200), Vec(100, 380), Vec(150, 380), Vec(10, 10)}

\* The circles given to circleCircleIntersect when it is checked on its own.
Centers ==
  {Vec(100, 100), Vec(250, 100), Vec(140, 100), Vec(200, 100), Vec(130, 140)}

Radii == {20, 30, 50}

\* ------------------------------------------------------------------------
\* SimpleRotator: vectors of three numbers.
\* ------------------------------------------------------------------------
\* The vectors met here lie along the coordinate axes, with whole entries.
Dot3(v, w) == v[1] * w[1] + v[2] * w[2] + v[3] * w[3]

Add3(v, w) == <<v[1] + w[1], v[2] + w[2], v[3] + w[3]>>

Subtract3(v, w) == <<v[1] - w[1], v[2] - w[2], v[3] - w[3]>>

Scale3(v, num) == <<v[1] * num, v[2] * num, v[3] * num>>

Cross3(v, w) ==
  <<v[2] * w[3] - v[3] * w[2], v[3] * w[1] - v[1] * w[3],
    v[1] * w[2] - v[2] * w[1]>>

\* A vector along one axis, not zero.
OnAxis(v) == Cardinality({i \in 1..3 : v[i] # 0}) = 1

\* length(v) and normalize(v, v) for such a vector.
Length3(v) == Abs(v[1]) + Abs(v[2]) + Abs(v[3])

Normalize3(v) == <<Sign(v[1]), Sign(v[2]), Sign(v[3])>>

\* An argument left out of a call: a vector, a number.
NoVector == <<>>

NoNumber == -1

\* setView: the basis and the distance it stores.
SetViewResult(viewDirectionVector, viewUpVector, viewDistance) ==
  LET viewpoint == IF viewDirectionVector = NoVector THEN <<0, 0, 10>>
                   ELSE viewDirectionVector
      viewup == IF viewUpVector = NoVector THEN <<0, 1, 0>> ELSE viewUpVector
      z == Normalize3(viewpoint)
      y == Normalize3(Subtract3(viewup, Scale3(z, Dot3(z, viewup))))
  IN [unitx |-> Cross3(y, z), unity |-> y, unitz |-> z,
      viewZ |-> IF viewDistance # NoNumber /\ viewDistance # 0
                THEN viewDistance
                ELSE Length3(viewpoint)]

\* setView is called with vectors for which every normalize above divides a
\* vector along an axis by its length.
SetViewExact(viewDirectionVector, viewUpVector) ==
  LET viewpoint == IF viewDirectionVector = NoVector THEN <<0, 0, 10>>
                   ELSE viewDirectionVector
      viewup == IF viewUpVector = NoVector THEN <<0, 1, 0>> ELSE viewUpVector
      z == Normalize3(viewpoint)
  IN OnAxis(viewpoint) /\ OnAxis(Subtract3(viewup, Scale3(z, Dot3(z, viewup))))

\* Faulty variant: the basis vectors laid out one after the other.
ViewMatrixArrayByRows(x, y, z, dist) ==
  <<x[1], x[2], x[3], 0, y[1], y[2], y[3], 0, z[1], z[2], z[3], 0, 0, 0, -dist, 1>>

\* getViewMatrixArray for a basis and a distance.
ViewMatrixArrayOf(x, y, z, dist) ==
  <<x[1], y[1], z[1], 0, x[2], y[2], z[2], 0, x[3], y[3], z[3], 0, 0, 0, -dist, 1>>

\* The unit of the last place of a single-precision number of the size of n.
RECURSIVE Ulp32(_, _)
Ulp32(n, p) == IF n < 16777216 * p THEN p ELSE Ulp32(n, 2 * p)

\* The conversion new Float32Array(...) applies to a whole number: to the
\* nearest number with 24 significant bits, ties to the even one.
Fround(n) ==
  LET a == Abs(n)
      p == Ulp32(a, 1)
      q == a \div p
      r == a % p
      up == 2 * r > p \/ (2 * r = p /\ q % 2 = 1)
  IN Sign(n) * (IF up THEN q + 1 ELSE q) * p

Float32Array(arr) == [i \in 1..Len(arr) |-> Fround(arr[i])]

\* reflectInAxis(axis, source, destination) for an axis that need not have
\* length 1: twice the projection on the axis, less the source.
ReflectInAxis(axis, source) ==
  LET s == 2 * Dot3(axis, source)
      n == Dot3(axis, axis)
  IN <<(s * axis[1]) \div n - source[1], (s * axis[2]) \div n - source[2],
       (s * axis[3]) \div n - source[3]>>

\* applyTransvection(e1, e2) on one basis vector.  e stands for the sum of
\* the two unit vectors before it is normalized; its length is divided out
\* in ReflectInAxis.
Transvect(e1, e2, unit) ==
  LET n1 == Normalize3(e1)
      e == Add3(n1, Normalize3(e2))
  IN ReflectInAxis(n1, ReflectInAxis(e, unit))

\* The canvas of the page: 600 by 400.
CenterX == 300

CenterY == 200

Radius == 200

\* Math.sqrt of a square number.
Sqrt(q) == CHOOSE n \in 0..Radius : n * n = q

\* toRay(x, y) for a basis.
ToRay(x, y, ux, uy, uz) ==
  LET dx == x - CenterX
      dy == CenterY - y
      v == Add3(Scale3(ux, dx), Scale3(uy, dy))
      dist2 == Dot3(v, v)
  IN IF dist2 > Radius * Radius THEN v
     ELSE Add3(v, Scale3(uz, Sqrt(Radius * Radius - dist2)))

\* The pointer positions of the events, as doMouseDown and doMouseDrag
\* compute them: the center of the canvas, four points on the rim of the
\* ball, and one point off the canvas.
RotPositions ==
  {<<300, 200>>, <<500, 200>>, <<100, 200>>, <<300, 0>>, <<300, 400>>,
   <<700, 200>>}

\* The arguments given to setView: none; a view along x with an up vector
\* that leans, from a distance of 45; a view from below with distance 0.
ViewArguments ==
  {<<NoVector, NoVector, NoNumber>>, <<<<5, 0, 0>>, <<1, 0, 2>>, 45>>,
   <<<<0, -3, 0>>, <<0, 0, 1>>, 0>>}

\* The distances given to setViewDistance; the last is the least whole
\* number that single precision cannot hold.
SetDistances == {45, 16777217}

\* The matrices given to setViewMatrix: a quarter turn about y, and the
\* identity.
ViewMatrices ==
  {<<0, 0, -1, 0, 0, 1, 0, 0, 1, 0, 0, 0, 0, 0, -10, 1>>,
   <<1, 0, 0, 0, 0, 1, 0, 0, 0, 0, 1, 0, 0, 0, 0, 1>>}

\* ------------------------------------------------------------------------
\* State.
\* ------------------------------------------------------------------------
\* ------------------------------------------------------------------------
\* The rotating square whose draw also paints the vertices.
\* ------------------------------------------------------------------------
\* The functions the script declares.
Declared == {"mapToViewport", "getVertex", "draw", "mainEntrance"}

\* The vertices draw visits: i < numPoints = 6, 3 and 4 passed over.
Visited == <<0, 1, 2, 5>>

\* The functions draw calls, by the names it calls them with, in the order
\* in which it looks the names up: for the pivot, for each vertex of the
\* outline, and for each vertex painted.
DrawCallees ==
  <<"mapToViewport", "getVertex">>
    \o [n \in 1..(2 * Len(Visited)) |->
          IF n % 2 = 1 THEN "mapToViewport" ELSE "getVertex"]
    \o [n \in 1..(2 * Len(Visited)) |->
          IF n % 2 = 1 THEN "mapToViewPort" ELSE "getVertex"]

\* draw(ctx, angle, vertice): the canvas is turned about the vertex
\* vertexIndex; draw returns if every name it calls is declared, and is left
\* by a ReferenceError at the first that is not.
DrawSquare(vertexIndex) ==
  [pivot |-> vertexIndex,
   returns |-> \A n \in 1..Len(DrawCallees) : DrawCallees[n] \in Declared]

\* The switch of the keydown listener.
VerticeAfter(key, v) ==
  CASE key = "b" -> 4
    [] key = "r" -> 3
    [] key = "g" -> 1
    [] key = "w" -> 5
    [] OTHER -> v

\* The keys pressed: the four bound ones and one that is not.
SquareKeys == {"b", "r", "g", "w", "a"}

VARIABLES
  cci,          \* one call of circleCircleIntersect: arguments and result
  isos,         \* polyDemo: the triangles (their anchors)
  rects,        \* polyDemo: the rectangles (their anchors)
  circs,        \* polyDemo: the circles (their anchors and radius)
  color,        \* polyDemo: the color field of each shape
  drawn,        \* the color each shape was drawn with by the last update()
  prevMouse,    \* polyDemo: prevMouse
  onmousemove,  \* demo.onmousemove
  nMouse,       \* history: the mouse events delivered to the canvas so far
  armed,        \* history: the last mousedown was near an anchor, no mouseup since
  touched,      \* history: the shapes whose anchors changed since the last mousedown
  everRed,      \* history: the shapes that some update() has left red
  downMouse,    \* history: the mouse position of the last mousedown
  downGeometry, \* history: the shapes as they were at the last mousedown
  vertice,      \* rotating square: vertice of mainEntrance
  requested,    \* rotating square: a call of runanimation is pending
  pivot,        \* rotating square: the vertexIndex of the last draw, 0 if none
  drawDone,     \* rotating square: the last draw ran to its end
  keys,         \* rotating square: event.key as console.log printed it
  unitx,        \* SimpleRotator: unitx
  unity,        \* SimpleRotator: unity
  unitz,        \* SimpleRotator: unitz
  dragging,     \* SimpleRotator: dragging
  prevxy,       \* SimpleRotator: <<prevx, prevy>>
  listeners,    \* the event types for which the document holds a listener
  callback,     \* SimpleRotator: whether a callback was given
  viewArgs,     \* history: the arguments of the last setView
  dragged,      \* history: a drag has been performed
  matrixSet,    \* history: setViewMatrix was called since the last setView
  lastOp,       \* history: the last method called or event handled
  opArg,        \* history: its argument
  ret,          \* history: what it returned
  called,       \* history: whether it called the callback
  nOps,         \* history: the calls and events so far
  angle,        \* the fourteen ...Angle globals, in degrees
  matrix,       \* the fourteen ...Matrix globals (placement)
  matrixLocal,  \* the fourteen ...MatrixLocal globals (scale)
  pressed,      \* history: how often each character reached handleKeyPress
  s,            \* the Stack object in use
  calls,        \* history: the calls made on s, with argument and result
  console,      \* the messages written by console.log
  pc,           \* draw(): 0 outside draw, else the index of the next statement
  renders,      \* the renderCube calls since gl.clear: local passed, model drawn
  attribs,      \* the attributes gl.getAttribLocation finds in lightingShader
  attempts,     \* history: the renderCube calls since gl.clear
  viewZ,        \* the rotator's view distance
  view14        \* view.elements[14]

vars ==
  <<cci, isos, rects, circs, color, drawn, prevMouse, onmousemove, nMouse,
    armed, touched, everRed, downMouse, downGeometry, vertice, requested,
    pivot, drawDone, keys, unitx, unity, unitz, dragging, prevxy, listeners,
    callback, viewArgs, dragged, matrixSet, lastOp, opArg, ret, called, nOps,
    angle, matrix, matrixLocal, pressed, s, calls, console, pc, renders,
    attribs, attempts, viewZ, view14>>

\* The variables of the 2D demo, and those of the figure's page.
squareVars == <<vertice, requested, pivot, drawDone, keys>>

demoVars ==
  <<cci, isos, rects, circs, color, drawn, prevMouse, onmousemove, nMouse,
    armed, touched, everRed, downMouse, downGeometry, squareVars>>

polyVars ==
  <<isos, rects, circs, color, drawn, prevMouse, onmousemove, nMouse, armed,
    touched, everRed, downMouse, downGeometry>>

gpuVars == <<attribs, attempts>>

figureVars ==
  <<angle, matrix, matrixLocal, pressed, s, calls, console, pc, renders,
    gpuVars, viewZ, view14>>

\* The variables of the rotator other than viewZ, and those of the figure's
\* page other than viewZ.
rotVars ==
  <<unitx, unity, unitz, dragging, prevxy, listeners, callback, viewArgs,
    dragged, matrixSet, lastOp, opArg, ret, called, nOps>>

pageVars ==
  <<angle, matrix, matrixLocal, pressed, s, calls, console, pc, renders,
    gpuVars, view14>>

\* The values getChar gives handleKeyPress: the bound keys, unbound
\* characters and null.
Chars == {GetChar(ev) : ev \in Events}

\* Matrices pushed when the Stack is driven on its own.
Mats == {InitMatrix["head"], InitMatrix["footLeft"]}

RECURSIVE SumOver(_, _)
SumOver(f, S) ==
  IF S = {} THEN 0
  ELSE LET x == CHOOSE y \in S : TRUE IN f[x] + SumOver(f, S \ {x})

NPressed == SumOver(pressed, Chars)

\* The script's globals after load: angles 0, matrices as created, the
\* rotator constructed with its default view ([0, 0, 10]: distance 10), and
\* view = setLookAt(20, 20, 20, 0, 0, 0, 0, 1, 0), whose element 14 is
\* -sqrt(1200) = -20*sqrt3.
InitScene ==
  /\ angle = [p \in Parts |-> 0]
  /\ matrix = InitMatrix
  /\ matrixLocal = InitMatrixLocal
  /\ pressed = [c \in Chars |-> 0]
  /\ s = StackNew
  /\ calls = <<>>
  /\ console = {}
  /\ pc = 0
  /\ renders = <<>>
  /\ view14 = <<0, 0, -20, 0>>

\* The attributes of the vertex shader: lightingShader has both.
Attribs == {"a_Position", "a_Normal"}

InitPage ==
  /\ InitScene
  /\ attribs = Attribs
  /\ attempts = 0

InitFigure ==
  /\ InitPage
  /\ viewZ = 10

\* No call of circleCircleIntersect made: the arguments of the first call of
\* update(), on the first two circles.
NoCall ==
  [center1 |-> Vec(100, 100), radius1 |-> 50, center2 |-> Vec(250, 100),
   radius2 |-> 50, called |-> FALSE, ret |-> FALSE]

\* prevMouse = null.
NullMouse == <<>>

\* polyDemo after it has run: the shapes made, all black, the first update()
\* done, no move handler.
InitPoly ==
  LET r == Update(InitGeometry, [a \in Shapes |-> "black"])
  IN /\ isos = r.g.isos
     /\ rects = r.g.rects
     /\ circs = r.g.circs
     /\ color = r.color
     /\ drawn = r.drawn
     /\ prevMouse = NullMouse
     /\ onmousemove = NoHandler
     /\ nMouse = 0
     /\ armed = FALSE
     /\ touched = {}
     /\ everRed = {a \in Shapes : r.color[a] = "red"}
     /\ downMouse = NullMouse
     /\ downGeometry = r.g

\* new SimpleRotator(canvas, callback, viewDirectionVector, viewUpVector,
\* viewDistance): setView called, no drag in progress, the mousedown
\* listener on the canvas.
Construct(cb, viewDirectionVector, viewUpVector, viewDistance) ==
  LET r == SetViewResult(viewDirectionVector, viewUpVector, viewDistance)
  IN /\ unitx = r.unitx
     /\ unity = r.unity
     /\ unitz = r.unitz
     /\ viewZ = r.viewZ
     /\ dragging = FALSE
     /\ prevxy = NoVector
     /\ listeners = {}
     /\ callback = cb
     /\ viewArgs = <<viewDirectionVector, viewUpVector, viewDistance>>
     /\ dragged = FALSE
     /\ matrixSet = FALSE
     /\ lastOp = "new"
     /\ opArg = <<>>
     /\ ret = <<>>
     /\ called = FALSE
     /\ nOps = 0

\* rotator = new SimpleRotator(canvas), as the figure's page constructs it.
InitRotator == Construct(FALSE, NoVector, NoVector, NoNumber)

\* The rotating square: mainEntrance has set vertice = 3 and added the
\* keydown listener, and is at its call runanimation().
InitSquare ==
  /\ vertice = 3
  /\ requested = "call"
  /\ pivot = 0
  /\ drawDone = FALSE
  /\ keys = <<>>

Init ==
  /\ InitFigure
  /\ cci = NoCall
  /\ InitPoly
  /\ InitSquare
  /\ InitRotator

\* ------------------------------------------------------------------------
\* handleKeyPress(event), event carrying the character ch.
\* ------------------------------------------------------------------------
HandleKeyPress(event) ==
  /\ pc = 0
  /\ LET ch == GetChar(event)
         r == KeyEffect(ch, angle, matrix)
     IN /\ angle' = r.angle
        /\ matrix' = r.matrix
        /\ pressed' = [pressed EXCEPT ![ch] = @ + 1]
  /\ UNCHANGED <<matrixLocal, s, calls, console, pc, renders, viewZ, view14>>
  /\ UNCHANGED <<demoVars, rotVars, gpuVars>>

\* ------------------------------------------------------------------------
\* Calls on a Stack.
\* ------------------------------------------------------------------------
\* The record kept of one call: depth before and after, argument, result.
CallRecord(op, arg, before, r) ==
  [op |-> op, arg |-> arg, ret |-> r.ret, before |-> before.t, after |-> r.stack.t]

Push(m) ==
  /\ pc = 0
  /\ Len(calls) < MaxCalls
  /\ LET r == StackPush(s, m)
     IN /\ s' = r.stack
        /\ calls' = Append(calls, CallRecord("push", m, s, r))
        /\ console' = console \cup r.log
  /\ UNCHANGED <<angle, matrix, matrixLocal, pressed, pc, renders, viewZ, view14>>
  /\ UNCHANGED <<demoVars, rotVars, gpuVars>>

Pop ==
  /\ pc = 0
  /\ Len(calls) < MaxCalls
  /\ LET r == StackPop(s)
     IN /\ s' = r.stack
        /\ calls' = Append(calls, CallRecord("pop", Undefined, s, r))
        /\ console' = console \cup r.log
  /\ UNCHANGED <<angle, matrix, matrixLocal, pressed, pc, renders, viewZ, view14>>
  /\ UNCHANGED <<demoVars, rotVars, gpuVars>>

Top ==
  /\ pc = 0
  /\ Len(calls) < MaxCalls
  /\ LET r == StackTop(s)
     IN /\ s' = r.stack
        /\ calls' = Append(calls, CallRecord("top", Undefined, s, r))
        /\ console' = console \cup r.log
  /\ UNCHANGED <<angle, matrix, matrixLocal, pressed, pc, renders, viewZ, view14>>
  /\ UNCHANGED <<demoVars, rotVars, gpuVars>>

\* ------------------------------------------------------------------------
\* draw(), one statement at a time.  JavaScript runs draw() to completion
\* before it dispatches another event, so keys are handled at pc = 0 only.
\* ------------------------------------------------------------------------
\* gl.clear; view.elements = rotator.getViewMatrix();
\* rotator.setViewDistance(45); var s = new Stack().
DrawBegin ==
  /\ pc = 0
  /\ view14' = Rat(-viewZ)
  /\ viewZ' = 45
  /\ s' = StackNew
  /\ calls' = <<>>
  /\ renders' = <<>>
  /\ attempts' = 0
  /\ pc' = 1
  /\ UNCHANGED <<angle, matrix, matrixLocal, pressed, console, attribs>>
  /\ UNCHANGED <<demoVars, rotVars>>

AtIns(op) == pc \in 1..Len(DrawProgram) /\ DrawProgram[pc].op = op

\* s.push(torsoMatrix).
DrawPushRoot ==
  /\ AtIns("pushRoot")
  /\ LET m == matrix[DrawProgram[pc].part]
         r == StackPush(s, m)
     IN /\ s' = r.stack
        /\ calls' = Append(calls, CallRecord("push", m, s, r))
        /\ console' = console \cup r.log
  /\ pc' = pc + 1
  /\ UNCHANGED <<angle, matrix, matrixLocal, pressed, renders, viewZ, view14>>
  /\ UNCHANGED <<demoVars, rotVars, gpuVars>>

\* Faulty variant: s.push(s.top().multiply(pMatrix)), the copy left out.
\* multiply changes its receiver, the object on top of the stack, and the
\* entry at depth 1 is torsoMatrix itself.
DrawPushInPlace ==
  /\ AtIns("push")
  /\ LET t == StackTop(s)
         m == Multiply(Matrix4(t.ret), matrix[DrawProgram[pc].part])
         changed == [t.stack EXCEPT !.elements = ArraySet(@, t.stack.t - 1, m)]
         r == StackPush(changed, m)
     IN /\ s' = r.stack
        /\ calls' = calls \o << CallRecord("top", Undefined, s, t),
                                CallRecord("push", m, t.stack, r) >>
        /\ console' = console \cup t.log \cup r.log
        /\ matrix' = IF s.t = 1 THEN [matrix EXCEPT !["torso"] = m] ELSE matrix
  /\ pc' = pc + 1
  /\ UNCHANGED <<angle, matrixLocal, pressed, renders, viewZ, view14>>
  /\ UNCHANGED <<demoVars, rotVars, gpuVars>>

\* s.push(new Matrix4(s.top()).multiply(pMatrix)).
DrawPush ==
  /\ AtIns("push")
  /\ LET t == StackTop(s)
         m == Multiply(Matrix4(t.ret), matrix[DrawProgram[pc].part])
         r == StackPush(t.stack, m)
     IN /\ s' = r.stack
        /\ calls' = calls \o << CallRecord("top", Undefined, s, t),
                                CallRecord("push", m, t.stack, r) >>
        /\ console' = console \cup t.log \cup r.log
  /\ pc' = pc + 1
  /\ UNCHANGED <<angle, matrix, matrixLocal, pressed, renders, viewZ, view14>>
  /\ UNCHANGED <<demoVars, rotVars, gpuVars>>

\* renderCube(matrixStack, matrixLocal) for the part p, found being the
\* attributes getAttribLocation finds: a message and a return for a_Position
\* missing, then for a_Normal missing; otherwise
\* current = new Matrix4(matrixStack.top()).multiply(matrixLocal); drawArrays.
RenderCube(matrixStack, p, found) ==
  IF "a_Position" \notin found
  THEN [stack |-> matrixStack, calls |-> <<>>, drawn |-> <<>>,
        log |-> {"Failed to get the storage location of a_Position"}]
  ELSE IF "a_Normal" \notin found
  THEN [stack |-> matrixStack, calls |-> <<>>, drawn |-> <<>>,
        log |-> {"Failed to get the storage location of a_Normal"}]
  ELSE LET t == StackTop(matrixStack)
           current == Multiply(Matrix4(t.ret), matrixLocal[p])
       IN [stack |-> t.stack,
           calls |-> <<CallRecord("top", Undefined, matrixStack, t)>>,
           drawn |-> <<[local |-> p, model |-> current]>>,
           log |-> t.log]

\* renderCube(s, pMatrixLocal).
DrawRender ==
  /\ AtIns("render")
  /\ \E r \in {RenderCube(s, DrawProgram[pc].part, attribs)} :
        /\ s' = r.stack
        /\ calls' = calls \o r.calls
        /\ console' = console \cup r.log
        /\ renders' = renders \o r.drawn
  /\ attempts' = attempts + 1
  /\ pc' = pc + 1
  /\ UNCHANGED <<angle, matrix, matrixLocal, pressed, viewZ, view14, attribs>>
  /\ UNCHANGED <<demoVars, rotVars>>

\* s.pop().
DrawPop ==
  /\ AtIns("pop")
  /\ LET r == StackPop(s)
     IN /\ s' = r.stack
        /\ calls' = Append(calls, CallRecord("pop", Undefined, s, r))
        /\ console' = console \cup r.log
  /\ pc' = pc + 1
  /\ UNCHANGED <<angle, matrix, matrixLocal, pressed, renders, viewZ, view14>>
  /\ UNCHANGED <<demoVars, rotVars, gpuVars>>

\* if (!s.isEmpty()) console.log("Warning: pops do not match pushes").
DrawEnd ==
  /\ pc = Len(DrawProgram) + 1
  /\ console' = IF StackIsEmpty(s) THEN console
                ELSE console \cup {"Warning: pops do not match pushes"}
  /\ pc' = 0
  /\ UNCHANGED <<angle, matrix, matrixLocal, pressed, s, calls, renders,
                 viewZ, view14>>
  /\ UNCHANGED <<demoVars, rotVars, gpuVars>>

\* ------------------------------------------------------------------------
\* circleCircleIntersect(center1, radius1, center2, radius2), called once on
\* the arguments held in cci (the radii given as lengths).
\* ------------------------------------------------------------------------
CircleCircleCall ==
  /\ ~cci.called
  /\ cci' = [cci EXCEPT
               !.called = TRUE,
               !.ret = CircleCircleIntersect(cci.center1, cci.radius1 * cci.radius1,
                                             cci.center2, cci.radius2 * cci.radius2)]
  /\ UNCHANGED <<figureVars, polyVars, rotVars, squareVars>>

\* ------------------------------------------------------------------------
\* The mouse events of the 2D demo.
\* ------------------------------------------------------------------------
Geometry == [isos |-> isos, rects |-> rects, circs |-> circs]

\* Some anchor lies within 5 pixels of the mouse.
NearSomeAnchor(mouse) ==
  \E a \in Shapes : \E n \in 1..Len(Anchors(Geometry, a)) :
    DistSq(mouse, Anchors(Geometry, a)[n]) <= 25

\* demo.onmousedown.
MouseDown(mouse) ==
  /\ nMouse < MaxMouse
  /\ prevMouse' = mouse
  /\ onmousemove' = HandlerAfterDown(Geometry, mouse)
  /\ nMouse' = nMouse + 1
  /\ armed' = NearSomeAnchor(mouse)
  /\ touched' = {}
  /\ downMouse' = mouse
  /\ downGeometry' = Geometry
  /\ UNCHANGED <<isos, rects, circs, color, drawn, everRed, cci, figureVars,
                 rotVars, squareVars>>

\* A mousemove on the canvas while demo.onmousemove is null: nothing runs.
MouseMoveIdle(mouse) ==
  /\ nMouse < MaxMouse
  /\ onmousemove = NoHandler
  /\ nMouse' = nMouse + 1
  /\ UNCHANGED <<isos, rects, circs, color, drawn, prevMouse, onmousemove,
                 armed, touched, everRed, downMouse, downGeometry, cci,
                 figureVars, rotVars, squareVars>>

\* Faulty variant: the handler without its line prevMouse = mouse.
MouseMoveDragKeepsPrev(mouse) ==
  /\ nMouse < MaxMouse
  /\ onmousemove # NoHandler
  /\ LET delta == VSub(mouse, prevMouse)
         h == onmousemove
     IN /\ (h.kind = "rects" /\ h.i > 0) =>
             AlongAxis(VSub(VAdd(rects[h.k].midPoints[h.i], delta), rects[h.k].center))
        /\ \E r \in {Update(Drag(Geometry, h, delta), color)} :
              /\ isos' = r.g.isos
              /\ rects' = r.g.rects
              /\ circs' = r.g.circs
              /\ color' = r.color
              /\ drawn' = r.drawn
              /\ touched' = touched \cup
                   {a \in Shapes : Anchors(r.g, a) # Anchors(Geometry, a)}
              /\ everRed' = everRed \cup {a \in Shapes : r.color[a] = "red"}
  /\ prevMouse' = prevMouse
  /\ nMouse' = nMouse + 1
  /\ UNCHANGED <<onmousemove, armed, downMouse, downGeometry, cci, figureVars,
                 rotVars, squareVars>>

\* A mousemove handled by the installed handler, update() included.
MouseMoveDrag(mouse) ==
  /\ nMouse < MaxMouse
  /\ onmousemove # NoHandler
  /\ LET delta == VSub(mouse, prevMouse)
         h == onmousemove
     IN /\ (h.kind = "rects" /\ h.i > 0) =>
             AlongAxis(VSub(VAdd(rects[h.k].midPoints[h.i], delta), rects[h.k].center))
        /\ \E r \in {Update(Drag(Geometry, h, delta), color)} :
              /\ isos' = r.g.isos
              /\ rects' = r.g.rects
              /\ circs' = r.g.circs
              /\ color' = r.color
              /\ drawn' = r.drawn
              /\ touched' = touched \cup
                   {a \in Shapes : Anchors(r.g, a) # Anchors(Geometry, a)}
              /\ everRed' = everRed \cup {a \in Shapes : r.color[a] = "red"}
  /\ prevMouse' = mouse
  /\ nMouse' = nMouse + 1
  /\ UNCHANGED <<onmousemove, armed, downMouse, downGeometry, cci, figureVars,
                 rotVars, squareVars>>

\* demo.onmouseup.
MouseUp ==
  /\ nMouse < MaxMouse
  /\ onmousemove' = NoHandler
  /\ nMouse' = nMouse + 1
  /\ armed' = FALSE
  /\ UNCHANGED <<isos, rects, circs, color, drawn, prevMouse, touched,
                 everRed, downMouse, downGeometry, cci, figureVars, rotVars,
                 squareVars>>

\* ------------------------------------------------------------------------
\* SimpleRotator: its methods and its mouse handlers.
\* ------------------------------------------------------------------------
\* The step of one call or event: its name, argument, result, and whether
\* the callback ran.
Op(name, a, r, cb) ==
  /\ nOps < MaxRotOps
  /\ nOps' = nOps + 1
  /\ lastOp' = name
  /\ opArg' = a
  /\ ret' = r
  /\ called' = cb
  /\ UNCHANGED <<demoVars, pageVars, callback>>

\* rotator.setView(viewDirectionVector, viewUpVector, viewDistance).
SetView(viewDirectionVector, viewUpVector, viewDistance) ==
  /\ SetViewExact(viewDirectionVector, viewUpVector)
  /\ \E r \in {SetViewResult(viewDirectionVector, viewUpVector, viewDistance)} :
       /\ unitx' = r.unitx
       /\ unity' = r.unity
       /\ unitz' = r.unitz
       /\ viewZ' = r.viewZ
  /\ viewArgs' = <<viewDirectionVector, viewUpVector, viewDistance>>
  /\ matrixSet' = FALSE
  /\ Op("setView", <<viewDirectionVector, viewUpVector, viewDistance>>, <<>>, FALSE)
  /\ UNCHANGED <<dragging, prevxy, listeners, dragged>>

\* rotator.setViewMatrix(matrix).
SetViewMatrix(m) ==
  /\ unitx' = <<m[1], m[5], m[9]>>
  /\ unity' = <<m[2], m[6], m[10]>>
  /\ unitz' = <<m[3], m[7], m[11]>>
  /\ matrixSet' = TRUE
  /\ Op("setViewMatrix", m, <<>>, FALSE)
  /\ UNCHANGED <<viewZ, dragging, prevxy, listeners, viewArgs, dragged>>

ViewMatrixArray == ViewMatrixArrayOf(unitx, unity, unitz, viewZ)

\* rotator.getViewMatrix().
GetViewMatrix ==
  /\ Op("getViewMatrix", <<>>, Float32Array(ViewMatrixArray), FALSE)
  /\ UNCHANGED <<unitx, unity, unitz, viewZ, dragging, prevxy, listeners,
                 viewArgs, dragged, matrixSet>>

\* rotator.getViewMatrixArray().
GetViewMatrixArray ==
  /\ Op("getViewMatrixArray", <<>>, ViewMatrixArray, FALSE)
  /\ UNCHANGED <<unitx, unity, unitz, viewZ, dragging, prevxy, listeners,
                 viewArgs, dragged, matrixSet>>

\* rotator.getViewDistance().
GetViewDistance ==
  /\ Op("getViewDistance", <<>>, <<viewZ>>, FALSE)
  /\ UNCHANGED <<unitx, unity, unitz, viewZ, dragging, prevxy, listeners,
                 viewArgs, dragged, matrixSet>>

\* Faulty variant: the distance is stored with the sign of element 14.
SetViewDistanceNegated(viewDistance) ==
  /\ viewZ' = -viewDistance
  /\ Op("setViewDistance", <<viewDistance>>, <<>>, FALSE)
  /\ UNCHANGED <<unitx, unity, unitz, dragging, prevxy, listeners, viewArgs,
                 dragged, matrixSet>>

\* rotator.setViewDistance(viewDistance).
SetViewDistance(viewDistance) ==
  /\ viewZ' = viewDistance
  /\ Op("setViewDistance", <<viewDistance>>, <<>>, FALSE)
  /\ UNCHANGED <<unitx, unity, unitz, dragging, prevxy, listeners, viewArgs,
                 dragged, matrixSet>>

\* Faulty variant: doMouseDown without its first line.
DoMouseDownUnguarded(x, y) ==
  /\ dragging' = TRUE
  /\ listeners' = listeners \cup {"mousemove", "mouseup"}
  /\ prevxy' = <<x, y>>
  /\ Op("mousedown", <<x, y>>, <<>>, FALSE)
  /\ UNCHANGED <<unitx, unity, unitz, viewZ, viewArgs, dragged, matrixSet>>

\* A mousedown on the canvas: doMouseDown.
DoMouseDown(x, y) ==
  /\ IF dragging
     THEN UNCHANGED <<dragging, listeners, prevxy>>
     ELSE /\ dragging' = TRUE
          /\ listeners' = listeners \cup {"mousemove", "mouseup"}
          /\ prevxy' = <<x, y>>
  /\ Op("mousedown", <<x, y>>, <<>>, FALSE)
  /\ UNCHANGED <<unitx, unity, unitz, viewZ, viewArgs, dragged, matrixSet>>

\* The two rays of doMouseDrag, and the moves taken: those that do not
\* carry the pointer straight across the ball (there the sum of the two
\* unit rays is zero and its normalize divides by zero).
Ray1 == ToRay(prevxy[1], prevxy[2], unitx, unity, unitz)

Ray2(x, y) == ToRay(x, y, unitx, unity, unitz)

DragExact(x, y) ==
  Add3(Normalize3(Ray1), Normalize3(Ray2(x, y))) # <<0, 0, 0>>

\* A mousemove on the document: doMouseDrag if it is registered.
DoMouseDrag(x, y) ==
  /\ IF "mousemove" \in listeners /\ dragging
     THEN /\ DragExact(x, y)
          /\ unitz' = Transvect(Ray1, Ray2(x, y), unitz)
          /\ unitx' = Transvect(Ray1, Ray2(x, y), unitx)
          /\ unity' = Transvect(Ray1, Ray2(x, y), unity)
          /\ prevxy' = <<x, y>>
          /\ dragged' = TRUE
          /\ Op("mousemove", <<x, y>>, <<>>, callback)
     ELSE /\ UNCHANGED <<unitx, unity, unitz, prevxy, dragged>>
          /\ Op("mousemove", <<x, y>>, <<>>, FALSE)
  /\ UNCHANGED <<viewZ, dragging, listeners, viewArgs, matrixSet>>

\* A mouseup on the document: doMouseUp if it is registered.
DoMouseUp ==
  /\ IF "mouseup" \in listeners /\ dragging
     THEN /\ listeners' = listeners \ {"mousemove", "mouseup"}
          /\ dragging' = FALSE
     ELSE UNCHANGED <<listeners, dragging>>
  /\ Op("mouseup", <<>>, <<>>, FALSE)
  /\ UNCHANGED <<unitx, unity, unitz, viewZ, prevxy, viewArgs, dragged, matrixSet>>

\* ------------------------------------------------------------------------
\* Specifications.
\* ------------------------------------------------------------------------
\* The page: key presses between frames, frames drawn statement by statement.
KeyPress == \E ev \in Events : NPressed < MaxPresses /\ HandleKeyPress(ev)

Next ==
  \/ KeyPress
  \/ DrawBegin
  \/ DrawPushRoot
  \/ DrawPush
  \/ DrawRender
  \/ DrawPop
  \/ DrawEnd

Spec == Init /\ [][Next]_vars

\* The figure on a page whose shader may lack an attribute: what
\* getAttribLocation finds is fixed when the program is linked.
InitGpu ==
  /\ InitScene
  /\ viewZ = 10
  /\ attribs \in {{}, {"a_Position"}, Attribs}
  /\ attempts = 0
  /\ cci = NoCall
  /\ InitPoly
  /\ InitSquare
  /\ InitRotator

SpecGpu == InitGpu /\ [][Next]_vars

\* ------------------------------------------------------------------------
\* The rotating square: the animation callback and the keydown listener.
\* ------------------------------------------------------------------------
\* runanimation(), called by mainEntrance or as an animation frame:
\* draw(ctx, angle, vertice); requestAnimationFrame(runanimation).  The
\* request is made only if draw returns.
RunAnimation ==
  /\ requested # "none"
  /\ \E d \in {DrawSquare(vertice)} :
       /\ pivot' = d.pivot
       /\ drawDone' = d.returns
       /\ requested' = IF d.returns THEN "frame" ELSE "none"
  /\ UNCHANGED <<vertice, keys, cci, polyVars, figureVars, rotVars>>

\* A keydown on the document, once mainEntrance is over.
SquareKeyDown(key) ==
  /\ requested # "call"
  /\ Len(keys) < MaxSquareKeys
  /\ keys' = Append(keys, key)
  /\ vertice' = VerticeAfter(key, vertice)
  /\ UNCHANGED <<requested, pivot, drawDone, cci, polyVars, figureVars, rotVars>>

SquareNext ==
  \/ RunAnimation
  \/ \E key \in SquareKeys : SquareKeyDown(key)

\* The browser runs every animation frame that was requested, and
\* mainEntrance goes on to its call.
SpecSquare == Init /\ [][SquareNext]_vars /\ WF_vars(RunAnimation)

\* The key handler alone.
KeySeq == \E ev \in Events : NPressed < MaxKeySeq /\ HandleKeyPress(ev)

SpecKeys == Init /\ [][KeySeq]_vars

\* The Stack class alone, driven by arbitrary calls on a new Stack.
PushAny == \E m \in Mats : Push(m)

StackNext ==
  \/ PushAny
  \/ Pop
  \/ Top

SpecStack == Init /\ [][StackNext]_vars

\* circleCircleIntersect alone, on every pair of the circles above.
InitCircles ==
  /\ InitFigure
  /\ InitPoly
  /\ InitSquare
  /\ InitRotator
  /\ cci \in [center1 : Centers, radius1 : Radii, center2 : Centers,
              radius2 : Radii, called : {FALSE}, ret : {FALSE}]

SpecCircles == InitCircles /\ [][CircleCircleCall]_vars

\* The 2D demo driven by mouse events on its canvas.
PolyNext ==
  \/ \E mouse \in MousePositions : MouseDown(mouse)
  \/ \E mouse \in MousePositions : MouseMoveIdle(mouse)
  \/ \E mouse \in MousePositions : MouseMoveDrag(mouse)
  \/ MouseUp

SpecPoly == Init /\ [][PolyNext]_vars

\* A SimpleRotator made with or without a callback and with or without
\* view arguments, then driven by method calls and mouse events.
InitRotatorAny ==
  /\ InitPage
  /\ cci = NoCall
  /\ InitPoly
  /\ InitSquare
  /\ \E cb \in BOOLEAN, a \in ViewArguments : Construct(cb, a[1], a[2], a[3])

RotNext ==
  \/ \E a \in ViewArguments : SetView(a[1], a[2], a[3])
  \/ \E m \in ViewMatrices : SetViewMatrix(m)
  \/ GetViewMatrix
  \/ GetViewMatrixArray
  \/ GetViewDistance
  \/ \E d \in SetDistances : SetViewDistance(d)
  \/ \E p \in RotPositions : DoMouseDown(p[1], p[2])
  \/ \E p \in RotPositions : DoMouseDrag(p[1], p[2])
  \/ DoMouseUp

SpecRotator == InitRotatorAny /\ [][RotNext]_vars

\* ------------------------------------------------------------------------
\* Properties.
\* ------------------------------------------------------------------------
\* draw() stands at its final check.
EndPc == Len(DrawProgram) + 1

\* A frame has run through all its statements.
FrameDone == pc = EndPc \/ (pc = 0 /\ calls # <<>>)

CountCalls(op) == Cardinality({i \in 1..Len(calls) : calls[i].op = op})

\* C1: in every frame pop() and top() are never called on an empty stack,
\* the stack is empty at draw()'s final check, pops equal pushes, and the
\* warning "pops do not match pushes" is never logged.
C1_PopsMatchPushes ==
  /\ \A i \in 1..Len(calls) :
       calls[i].op \in {"pop", "top"} => calls[i].before > 0
  /\ "Warning: stack underflow" \notin console
  /\ "Warning: pops do not match pushes" \notin console
  /\ FrameDone => /\ StackIsEmpty(s)
                  /\ CountCalls("push") = CountCalls("pop")

C1_Witness ==
  /\ pc = EndPc
  /\ CountCalls("push") = 14
  /\ CountCalls("pop") = 14
  /\ CountCalls("top") = 27

\* Calls i+1..j of the history: pushes, pops, pops made on an empty stack.
Pushes(i, j) == Cardinality({k \in (i + 1)..j : calls[k].op = "push"})

Pops(i, j) == Cardinality({k \in (i + 1)..j : calls[k].op = "pop"})

EmptyPops(i, j) ==
  Cardinality({k \in (i + 1)..j : calls[k].op = "pop" /\ calls[k].before <= 0})

\* Depth after the first k calls on a new Stack.
DepthAt(k) == IF k = 0 THEN 0 ELSE calls[k].after

\* C2 as stated: over any stretch of calls holding n pushes and n pops the
\* depth returns to the depth the stretch started from.
C2_DepthReturns ==
  \A i \in 0..Len(calls) : \A j \in i..Len(calls) :
    Pushes(i, j) = Pops(i, j) => DepthAt(j) = DepthAt(i)

\* C2 amended: over any stretch of calls holding n pushes and n pops, none
\* of the pops made on an empty stack, the depth returns to the depth the
\* stretch started from.
C2_DepthReturnsNoUnderflow ==
  /\ s.t = DepthAt(Len(calls))
  /\ \A i \in 0..Len(calls) : \A j \in i..Len(calls) :
       (Pushes(i, j) = Pops(i, j) /\ EmptyPops(i, j) = 0)
         => DepthAt(j) = DepthAt(i)

C2_Witness ==
  \E i \in 0..Len(calls) : \E j \in i..Len(calls) :
    /\ DepthAt(i) = 1
    /\ Pushes(i, j) = 2
    /\ Pops(i, j) = 2
    /\ EmptyPops(i, j) = 0
    /\ DepthAt(j) = 1

\* Number of elements the stack holds: the defined entries of its array.
Held(st) ==
  Cardinality({i \in 1..Len(st.elements) : st.elements[i] # Undefined})

\* C3: after any calls, calls on an empty stack included, isEmpty() is true
\* exactly when the stack holds no element, and t is never negative.
C3_IsEmptyIffNoElements ==
  /\ StackIsEmpty(s) <=> Held(s) = 0
  /\ s.t >= 0
  /\ Held(s) = s.t

C3_Witness ==
  /\ Len(calls) >= 3
  /\ calls[1].op = "push"
  /\ calls[Len(calls)].op = "pop"
  /\ calls[Len(calls)].before = 0
  /\ StackIsEmpty(s)

\* The contents a last-in first-out store has after the first k calls.
RECURSIVE Replay(_)
Replay(k) ==
  IF k = 0 THEN <<>>
  ELSE LET prev == Replay(k - 1)
           c == calls[k]
       IN CASE c.op = "push" -> Append(prev, c.arg)
            [] c.op = "pop" -> IF Len(prev) = 0 THEN prev
                               ELSE SubSeq(prev, 1, Len(prev) - 1)
            [] OTHER -> prev

\* The elements of the stack, bottom first.
Contents(st) == [i \in 1..st.t |-> st.elements[i]]

\* C4: on a non-empty stack top() and pop() return the element pushed last
\* among those not yet popped; top() leaves the contents as they are and
\* pop() removes exactly that element.
C4_Lifo ==
  /\ \A k \in 1..Len(calls) :
       LET prev == Replay(k - 1)
       IN (calls[k].op \in {"top", "pop"} /\ Len(prev) > 0)
            => calls[k].ret = prev[Len(prev)]
  /\ s.t >= 0
  /\ Contents(s) = Replay(Len(calls))

C4_Witness ==
  /\ Len(calls) = 5
  /\ calls[1].op = "push"
  /\ calls[2].op = "push"
  /\ calls[1].arg # calls[2].arg
  /\ calls[3].op = "top"
  /\ calls[3].ret = calls[2].arg
  /\ calls[4].op = "pop"
  /\ calls[4].ret = calls[2].arg
  /\ calls[5].op = "pop"
  /\ calls[5].ret = calls[1].arg

\* The call at position k was a pop() or top() on an empty stack.
OnEmpty(k) == calls[k].op \in {"pop", "top"} /\ calls[k].before <= 0

\* A pop() or top() made on an empty stack returns undefined and leaves the
\* stack as it was.
C5_EmptyCallStep ==
  [][(/\ Len(calls') = Len(calls) + 1
      /\ calls'[Len(calls')].op \in {"pop", "top"}
      /\ StackIsEmpty(s))
       => (/\ s' = s
           /\ s'.t = 0
           /\ calls'[Len(calls')].ret = Undefined)]_vars

\* After such a call, a push followed by top returns the pushed element.
C5_PushThenTop ==
  \A k \in 2..(Len(calls) - 1) :
    (OnEmpty(k - 1) /\ calls[k].op = "push" /\ calls[k + 1].op = "top")
      => calls[k + 1].ret = calls[k].arg

\* C5: pop() or top() on an empty Stack returns undefined and leaves the
\* stack unchanged at depth zero, so that a later push followed by top
\* returns the pushed element.
C5_EmptyCallsHarmless == C5_EmptyCallStep /\ []C5_PushThenTop

C5_Witness ==
  \E k \in 2..(Len(calls) - 1) :
    /\ calls[k - 1].op = "pop"
    /\ OnEmpty(k - 1)
    /\ calls[k].op = "push"
    /\ calls[k + 1].op = "top"
    /\ calls[k + 1].ret = calls[k].arg

\* draw() has just executed a renderCube statement; the part it rendered.
JustRendered == pc \in 2..EndPc /\ DrawProgram[pc - 1].op = "render"

RenderedPart == DrawProgram[pc - 1].part

\* C6: for every part but the torso, the matrix pushed is the stack top at
\* the time of the push composed with that part's own placement matrix, and
\* the part is rendered with its own local matrix.
C6_OwnPlacementAndLocal ==
  (JustRendered /\ RenderedPart # "torso") =>
    /\ s.t >= 2
    /\ ArrayGet(s.elements, s.t - 1)
         = Multiply(ArrayGet(s.elements, s.t - 2), matrix[RenderedPart])
    /\ renders[Len(renders)].local = RenderedPart
    /\ renders[Len(renders)].model
         = Multiply(ArrayGet(s.elements, s.t - 1), matrixLocal[RenderedPart])

\* The nesting torso -> {shoulder -> arm -> hand}, {head}, {leg -> ankle -> foot}.
Parent(p) ==
  CASE p = "shoulderLeft"  -> "torso"
    [] p = "shoulderRight" -> "torso"
    [] p = "armLeft"       -> "shoulderLeft"
    [] p = "armRight"      -> "shoulderRight"
    [] p = "handLeft"      -> "armLeft"
    [] p = "handRight"     -> "armRight"
    [] p = "head"          -> "torso"
    [] p = "legLeft"       -> "torso"
    [] p = "legRight"      -> "torso"
    [] p = "ankleLeft"     -> "legLeft"
    [] p = "ankleRight"    -> "legRight"
    [] p = "footLeft"      -> "ankleLeft"
    [] p = "footRight"     -> "ankleRight"

\* The part and its ancestors, the torso first.
RECURSIVE Chain(_)
Chain(p) == IF p = "torso" THEN <<p>> ELSE Append(Chain(Parent(p)), p)

\* The product of the placement matrices from the torso down to p.
RECURSIVE Cumulative(_)
Cumulative(p) ==
  IF p = "torso" THEN matrix[p]
  ELSE Multiply(Cumulative(Parent(p)), matrix[p])

\* C7: when a part is rendered the stack holds exactly the cumulative
\* transforms of the part's ancestors and of the part, the torso lowest;
\* so its depth is the part's level in the nesting and the entry below the
\* top is the parent's cumulative transform.
C7_StackIsAncestorChain ==
  JustRendered =>
    LET chain == Chain(RenderedPart)
    IN /\ s.t = Len(chain)
       /\ \A i \in 1..Len(chain) :
            ArrayGet(s.elements, i - 1) = Cumulative(chain[i])

\* C8: a frame calls renderCube exactly 14 times, once with each part's
\* local matrix.
C8_OneRenderPerPart ==
  /\ \A p \in Parts :
       Cardinality({i \in 1..Len(renders) : renders[i].local = p}) <= 1
  /\ FrameDone =>
       /\ Len(renders) = 14
       /\ \A p \in Parts :
            Cardinality({i \in 1..Len(renders) : renders[i].local = p}) = 1

C8_Witness ==
  /\ pc = EndPc
  /\ Len(renders) = 14
  /\ {renders[i].local : i \in 1..Len(renders)} = Parts
  /\ NPressed = 1

\* The parts that have key bindings, and the keys that raise and lower
\* each part's angle.
PartsWithKeys == {KeyCase(ch).part : ch \in BoundKeys}

IncKey(p) ==
  CHOOSE ch \in BoundKeys : KeyCase(ch).part = p /\ KeyCase(ch).delta = 15

DecKey(p) ==
  CHOOSE ch \in BoundKeys : KeyCase(ch).part = p /\ KeyCase(ch).delta = -15

\* C9: from every reachable state, the key that adds 15 to a part's angle
\* followed by the key that subtracts 15 leaves the part's placement matrix
\* as it was before the two presses.
C9_IncThenDecRestores ==
  \A p \in PartsWithKeys :
    LET up == KeyEffect(IncKey(p), angle, matrix)
        down == KeyEffect(DecKey(p), up.angle, up.matrix)
    IN /\ down.angle[p] = angle[p]
       /\ down.matrix[p] = matrix[p]

\* The rotation by deg degrees about the y axis, with no translation:
\* x goes to (cos, 0, -sin), y stays, z goes to (sin, 0, cos).
YRotation(deg) ==
  Normalize([d |-> 4,
     e |-> << Cos4(deg), Rat(0), NNeg(Sin4(deg)), Rat(0),
              Rat(0),    Rat(4), Rat(0),          Rat(0),
              Sin4(deg), Rat(0), Cos4(deg),       Rat(0),
              Rat(0),    Rat(0), Rat(0),          Rat(4) >>])

\* The rotation by 15 degrees about the y axis written out:
\* cos 15 = (sqrt6 + sqrt2)/4 and sin 15 = (sqrt6 - sqrt2)/4.
YRotation15 ==
  [d |-> 4,
   e |-> << <<0, 1, 0, 1>>,  <<0, 0, 0, 0>>, <<0, 1, 0, -1>>, <<0, 0, 0, 0>>,
            <<0, 0, 0, 0>>,  <<4, 0, 0, 0>>, <<0, 0, 0, 0>>,  <<0, 0, 0, 0>>,
            <<0, -1, 0, 1>>, <<0, 0, 0, 0>>, <<0, 1, 0, 1>>,  <<0, 0, 0, 0>>,
            <<0, 0, 0, 0>>,  <<0, 0, 0, 0>>, <<0, 0, 0, 0>>,  <<4, 0, 0, 0>> >>]

\* C10: after n presses of "t" and m presses of "T" the torso angle is
\* 15*(n - m) and the torso matrix is the rotation by that angle about the
\* y axis with translation (0, 0, 0); one press of "t" from the initial
\* state gives angle 15 and the rotation by 15 degrees.
C10_TorsoMatrix ==
  LET a == 15 * (pressed["t"] - pressed["T"])
  IN /\ angle["torso"] = a
     /\ matrix["torso"] = YRotation(a)
     /\ (pressed["t"] = 1 /\ NPressed = 1) =>
          (angle["torso"] = 15 /\ matrix["torso"] = YRotation15)

C10_Witness ==
  /\ pressed["t"] = 1
  /\ NPressed = 1
  /\ angle["torso"] = 15
  /\ matrix["torso"] = YRotation15

\* A step of handleKeyPress whose character is a bound key, and one whose
\* character is not.
BoundPress == \E ch \in BoundKeys : pressed'[ch] = pressed[ch] + 1

UnboundPress == \E ch \in Chars \ BoundKeys : pressed'[ch] = pressed[ch] + 1

\* C11: a press of a bound key changes the angle of exactly one part, by
\* +15 or by -15; the angles and the placement matrices of all other parts
\* and all local matrices stay as they were.
C11_OnePartChanges ==
  [][BoundPress =>
       /\ \E p \in Parts :
            /\ angle'[p] - angle[p] \in {15, -15}
            /\ \A q \in Parts \ {p} :
                 angle'[q] = angle[q] /\ matrix'[q] = matrix[q]
       /\ matrixLocal' = matrixLocal]_vars

C11_Witness ==
  /\ pressed["a"] = 1
  /\ NPressed = 1
  /\ angle["armRight"] = 15
  /\ matrix["armRight"] # InitMatrix["armRight"]
  /\ \A q \in Parts \ {"armRight"} : angle[q] = 0 /\ matrix[q] = InitMatrix[q]
  /\ matrixLocal = InitMatrixLocal

\* C12: a key press whose character is not a bound key, null included,
\* changes no angle and no placement matrix.
C12_UnboundKeyNoOp ==
  [][UnboundPress => angle' = angle /\ matrix' = matrix]_vars

C12_Witness ==
  /\ pressed[Null] = 1
  /\ pressed["x"] = 1
  /\ NPressed = 2
  /\ angle = [p \in Parts |-> 0]
  /\ matrix = InitMatrix

\* C13: a press of a key of the page's list changes the angle and the
\* placement matrix of the part the list names for that key.
C13_KeyMovesListedPart ==
  [][\A ch \in ListedKeys :
       pressed'[ch] = pressed[ch] + 1 =>
         /\ angle'[ListedPart(ch)] # angle[ListedPart(ch)]
         /\ matrix'[ListedPart(ch)] # matrix[ListedPart(ch)]]_vars

\* C14: circleCircleIntersect returns false exactly when the distance of the
\* centers exceeds radius1 + radius2 (circles that touch intersect), and
\* returns the same with the two circles exchanged; for (100,100) and
\* (250,100) with radii 50 it returns false, for (100,100) and (140,100) true.
C14_CircleCircle ==
  cci.called =>
    LET sum == cci.radius1 + cci.radius2
    IN /\ cci.ret = ~(DistSq(cci.center1, cci.center2) > sum * sum)
       /\ cci.ret = CircleCircleIntersect(cci.center2, cci.radius2 * cci.radius2,
                                          cci.center1, cci.radius1 * cci.radius1)
       /\ (/\ cci.center1 = Vec(100, 100) /\ cci.radius1 = 50
           /\ cci.center2 = Vec(250, 100) /\ cci.radius2 = 50) => ~cci.ret
       /\ (/\ cci.center1 = Vec(100, 100) /\ cci.radius1 = 50
           /\ cci.center2 = Vec(140, 100) /\ cci.radius2 = 50) => cci.ret

\* The call made on two circles that touch: centers 100 apart, radii 50.
C14_Witness ==
  /\ cci.called
  /\ cci.center1 = Vec(100, 100) /\ cci.radius1 = 50
  /\ cci.center2 = Vec(200, 100) /\ cci.radius2 = 50
  /\ cci.ret

\* Whether two shapes intersect in the present geometry, by the test made
\* for their kinds.
Intersects(a, b) == Hit(Geometry, a, b)

\* C15: after every update() a shape is red iff it intersects some other
\* shape in the present geometry and black otherwise, and it was drawn in
\* that frame with this color.
C15_RedIffIntersects ==
  \A a \in Shapes :
    /\ color[a] = (IF \E b \in Shapes \ {a} : Intersects(a, b) \/ Intersects(b, a)
                   THEN "red" ELSE "black")
    /\ drawn[a] = color[a]

\* Two shapes that an earlier frame left red and the last frame drew
\* black, after one of them was dragged away from the other.
C15_Witness ==
  \E a \in touched : \E b \in Shapes \ {a} :
    /\ {a, b} \subseteq everRed
    /\ color[a] = "black" /\ drawn[a] = "black"
    /\ color[b] = "black" /\ drawn[b] = "black"

\* C20, first part: a step changes the anchors of a shape only while a drag
\* is active (the last mousedown was within 5 pixels of an anchor and no
\* mouseup came after it).
C20_MovesOnlyWhileArmed ==
  [][<<isos, rects, circs>>' # <<isos, rects, circs>> => armed]_vars

\* C20, second part: with no drag active (after a mousedown away from every
\* anchor, after a mouseup) no move handler is installed; and the moves of
\* one drag change the anchors of at most one shape.
C20_NoHandlerOneShape ==
  /\ ~armed => onmousemove = NoHandler
  /\ Cardinality(touched) <= 1

\* C20: both parts.
C20_DragSessions == C20_MovesOnlyWhileArmed /\ []C20_NoHandlerOneShape

\* Two moves of one drag, which have moved one shape.
C20_Witness ==
  /\ armed
  /\ nMouse = 3
  /\ Cardinality(touched) = 1
  /\ onmousemove # NoHandler
  /\ prevMouse \in MousePositions
  /\ \E a \in touched : Anchors(Geometry, a) # Anchors(InitGeometry, a)

\* The view basis, and a step that is the call or event named.
Basis == <<unitx, unity, unitz>>

StepOf(name) == nOps' = nOps + 1 /\ lastOp' = name

\* Element i (from 0) of the column-major view matrix of a basis b and a
\* distance d: column c holds the c-th entries of the three basis vectors
\* and 0; the last column is 0, 0, -d, 1.
ViewElement(b, d, i) ==
  LET c == i \div 4
      r == i % 4
  IN IF c = 3 THEN <<0, 0, -d, 1>>[r + 1]
     ELSE IF r = 3 THEN 0
     ELSE b[r + 1][c + 1]

\* The basis setView derives from the arguments of its last call.
SetViewBasis ==
  LET r == SetViewResult(viewArgs[1], viewArgs[2], viewArgs[3])
  IN <<r.unitx, r.unity, r.unitz>>

\* getViewMatrix, getViewMatrixArray, getViewDistance and setViewDistance
\* leave the basis as it is.
C16_BasisKept ==
  [][(\/ StepOf("getViewMatrix") \/ StepOf("getViewMatrixArray")
      \/ StepOf("getViewDistance") \/ StepOf("setViewDistance"))
       => Basis' = Basis]_vars

\* What getViewMatrix has returned is the matrix of the basis of setView
\* with -viewDistance in element 14; for a rotator made with no view
\* arguments, the identity rotation and -10.
C16_ReturnsSetViewMatrix ==
  lastOp = "getViewMatrix" =>
    /\ \A i \in 0..15 : ret[i + 1] = ViewElement(SetViewBasis, viewZ, i)
    /\ (viewArgs = <<NoVector, NoVector, NoNumber>> /\ viewZ = 10) =>
         ret = <<1, 0, 0, 0, 0, 1, 0, 0, 0, 0, 1, 0, 0, 0, -10, 1>>

\* C16 as stated: on a rotator on which no drag has been performed,
\* getViewMatrix returns the matrix of the basis of setView with
\* -viewDistance in element 14, and the four methods keep the basis.
C16_UndraggedView ==
  C16_BasisKept /\ [](~dragged => C16_ReturnsSetViewMatrix)

\* The same with the entries as the Float32Array holds them.
C16_ReturnsSetViewMatrix32 ==
  lastOp = "getViewMatrix" =>
    /\ \A i \in 0..15 : ret[i + 1] = Fround(ViewElement(SetViewBasis, viewZ, i))
    /\ (viewArgs = <<NoVector, NoVector, NoNumber>> /\ viewZ = 10) =>
         ret = <<1, 0, 0, 0, 0, 1, 0, 0, 0, 0, 1, 0, 0, 0, -10, 1>>

\* C16 amended: on a rotator on which no drag has been performed and
\* setViewMatrix has not been called since setView, getViewMatrix returns
\* the matrix of the basis of setView with -viewDistance in element 14,
\* each entry rounded to single precision; the four methods keep the basis.
C16_UndraggedUnsetView ==
  C16_BasisKept /\ []((~dragged /\ ~matrixSet) => C16_ReturnsSetViewMatrix32)

\* getViewMatrix called on a rotator whose view arguments are
\* [5, 0, 0], [1, 0, 2], 45, never dragged.
C16_Witness ==
  /\ lastOp = "getViewMatrix"
  /\ ~dragged /\ ~matrixSet
  /\ viewArgs = <<<<5, 0, 0>>, <<1, 0, 2>>, 45>>
  /\ ret = <<0, 0, 1, 0, 1, 0, 0, 0, 0, 1, 0, 0, 0, 0, -45, 1>>

\* C17: the document holds the mousemove and the mouseup listener exactly
\* while dragging is true; a mousedown during a drag leaves prevx, prevy
\* and the listeners as they are; a mousemove outside a drag leaves the
\* basis as it is.
C17_ListenersIffDragging ==
  /\ ("mousemove" \in listeners) = dragging
  /\ ("mouseup" \in listeners) = dragging

C17_EventSteps ==
  [][/\ (StepOf("mousedown") /\ dragging) =>
          (prevxy' = prevxy /\ listeners' = listeners /\ dragging')
     /\ (StepOf("mousemove") /\ ~dragging) => Basis' = Basis]_vars

C17_OneDragSession == C17_EventSteps /\ []C17_ListenersIffDragging

\* A mousedown on the rim while a drag that began elsewhere is running.
C17_Witness ==
  /\ lastOp = "mousedown"
  /\ opArg = <<500, 200>>
  /\ prevxy = <<300, 200>>
  /\ dragging
  /\ listeners = {"mousemove", "mouseup"}

\* C18: setViewDistance(d) leaves the three basis vectors as they are and
\* changes element 14 of the view matrix, and nothing else of it, to -d;
\* getViewDistance returns the distance stored, d after that call.
C18_DistanceStep ==
  [][StepOf("setViewDistance") =>
       /\ Basis' = Basis
       /\ \A i \in 0..15 :
            ViewMatrixArray'[i + 1] =
              IF i = 14 THEN -opArg'[1] ELSE ViewMatrixArray[i + 1]
       /\ viewZ' = opArg'[1]]_vars

C18_DistanceReturned == lastOp = "getViewDistance" => ret = <<viewZ>>

C18_SetViewDistance == C18_DistanceStep /\ []C18_DistanceReturned

\* setView([0, -3, 0], [0, 0, 1], 0) leaves the distance at 3;
\* setViewDistance(45) and getViewDistance() follow.
C18_Witness ==
  /\ nOps = 3
  /\ lastOp = "getViewDistance"
  /\ ret = <<45>>
  /\ viewArgs = <<<<0, -3, 0>>, <<0, 0, 1>>, 0>>
  /\ opArg = <<>>
  /\ ViewMatrixArray[15] = -45

\* C19: with a callback given, every step that changes the view basis (a
\* drag move, setView, setViewMatrix) calls the callback.
C19_CallbackOnChange ==
  [][(callback /\ Basis' # Basis) => called']_vars

\* The messages of renderCube for an attribute that is missing.
Failed ==
  {"Failed to get the storage location of a_Position",
   "Failed to get the storage location of a_Normal"}

\* C21: in a frame in which renderCube has found an attribute missing, the
\* warning is logged, no draw call is issued, and the frame ends there:
\* no push and no renderCube call follows the first one.
C21_FrameEndsAtMissingAttribute ==
  (attribs # Attribs /\ attempts > 0) =>
    /\ console \cap Failed # {}
    /\ renders = <<>>
    /\ attempts = 1
    /\ CountCalls("push") = 1

\* C22: in every frame, the first after load included, element 14 of the
\* view matrix handed to the shader is -45.
C22_ViewDistanceInFrame == pc # 0 => view14 = Rat(-45)

\* The bound keys in one fixed order, and the scene after each has been
\* pressed as often as pressed counts, in that order, from the scene the
\* script starts with.
KeyOrder ==
  <<"t", "T", "s", "S", "a", "A", "e", "E", "h", "H", "Q", "q",
    "l", "L", "d", "D", "f", "F", "g", "G", "j", "J", "k", "K">>

RECURSIVE PressTimes(_, _, _)
PressTimes(ch, n, scene) ==
  IF n = 0 THEN scene
  ELSE PressTimes(ch, n - 1, KeyEffect(ch, scene.angle, scene.matrix))

RECURSIVE PressInOrder(_, _)
PressInOrder(i, scene) ==
  IF i > Len(KeyOrder) THEN scene
  ELSE PressInOrder(i + 1, PressTimes(KeyOrder[i], pressed[KeyOrder[i]], scene))

\* C26: presses of bound keys commute.  The presses a, b and the presses
\* b, a from one state lead to states with the same counts of presses, so
\* they give the same angles and placement matrices if these are what the
\* counted presses give in the fixed order, whatever the order they came
\* in; and every angle is 15 times the presses of the part's key that adds
\* less those of the key that subtracts (0 for a part with no keys).
C26_OrderIsImmaterial ==
  [angle |-> angle, matrix |-> matrix] =
    PressInOrder(1, [angle |-> [p \in Parts |-> 0], matrix |-> InitMatrix])

C26_AnglesCountPresses ==
  \A p \in Parts :
    angle[p] = IF p \in PartsWithKeys
               THEN 15 * (pressed[IncKey(p)] - pressed[DecKey(p)])
               ELSE 0

C26_KeysCommute == C26_OrderIsImmaterial /\ C26_AnglesCountPresses

\* A leg key and a torso key pressed: "F" comes after "t" in the fixed
\* order, and either may have been pressed first.
C26_Witness ==
  /\ pressed["t"] = 1
  /\ pressed["F"] = 1
  /\ NPressed = 2
  /\ angle["torso"] = 15
  /\ angle["legRight"] = -15
  /\ matrix["legRight"] # InitMatrix["legRight"]

\* C23: no statement of draw() changes an angle, a placement matrix (the
\* torso's, which is on the stack itself and not as a copy, included) or a
\* local matrix; so between frames, whatever frames have run between the
\* key presses, the angles and placement matrices are those the key presses
\* alone give, and the local matrices those the script made.
C23_FrameSteps ==
  [][(pc # 0 \/ pc' # 0) => UNCHANGED <<angle, matrix, matrixLocal>>]_vars

C23_SceneFromKeysAlone ==
  pc = 0 =>
    /\ [angle |-> angle, matrix |-> matrix] =
         PressInOrder(1, [angle |-> [p \in Parts |-> 0], matrix |-> InitMatrix])
    /\ matrixLocal = InitMatrixLocal

C23_DrawKeepsScene == C23_FrameSteps /\ []C23_SceneFromKeysAlone

\* A frame has run to its end after the torso was turned: the first entry
\* pushed was the turned torso matrix, and it is still what the key made it.
C23_Witness ==
  /\ pc = 0
  /\ pressed["t"] = 1
  /\ Len(renders) = 14
  /\ calls[1].op = "push"
  /\ calls[1].arg = matrix["torso"]
  /\ matrix["torso"] = KeyEffect("t", [p \in Parts |-> 0], InitMatrix).matrix["torso"]
  /\ matrix["torso"] # InitMatrix["torso"]

\* The anchor the installed handler drags, now and at the mousedown.
Dragged(g) == Anchors(g, Shape(onmousemove.kind, onmousemove.k))[onmousemove.i + 1]

\* The handlers of a circle's center, of a triangle's two anchors and of a
\* rectangle's center.
Translating ==
  \/ onmousemove.kind = "isos"
  \/ onmousemove.kind = "rects" /\ onmousemove.i = 0
  \/ onmousemove.kind = "circs" /\ onmousemove.i = 0

\* C24: while a circle's center, a triangle's anchor or a rectangle's
\* center is dragged, the anchor is where it was at the mousedown plus the
\* way the cursor has gone since the mousedown (prevMouse is the cursor of
\* the last event handled).
C24_NoDrift ==
  Translating =>
    Dragged(Geometry) = VAdd(Dragged(downGeometry), VSub(prevMouse, downMouse))

\* A circle's center taken hold of 5 pixels off and moved twice.
C24_Witness ==
  /\ onmousemove = Handler("circs", 1, 0)
  /\ downMouse = <<103, 104>>
  /\ nMouse = 3
  /\ prevMouse = <<10, 10>>
  /\ circs[1].center = <<7, 6>>

\* C25: a step taken with the handler of a primary anchor moves the shape
\* as a whole: a circle's center and control point go the same way and the
\* radius updateInfo computes stays; a triangle's vector from base point to
\* opposite vertex stays; a rectangle's five anchors go the same way.  A
\* step taken with the handler of a circle's control point leaves the
\* center where it was.
C25_RigidDrag ==
  [][onmousemove' = onmousemove =>
       LET k == onmousemove.k IN
       /\ (onmousemove.kind = "circs" /\ onmousemove.i = 0) =>
            /\ VSub(circs'[k].control, circs[k].control)
                 = VSub(circs'[k].center, circs[k].center)
            /\ circs'[k].radius = circs[k].radius
       /\ (onmousemove.kind = "circs" /\ onmousemove.i = 1) =>
            circs'[k].center = circs[k].center
       /\ (onmousemove.kind = "isos" /\ onmousemove.i = 0) =>
            VSub(isos'[k].oppositeVertex, isos'[k].basePoint)
              = VSub(isos[k].oppositeVertex, isos[k].basePoint)
       /\ (onmousemove.kind = "rects" /\ onmousemove.i = 0) =>
            \A n \in 1..4 :
              VSub(rects'[k].midPoints[n], rects[k].midPoints[n])
                = VSub(rects'[k].center, rects[k].center)]_vars

\* The first rectangle taken by its center and moved 50 to the right, its
\* four midpoints with it.
C25_Witness ==
  /\ onmousemove = Handler("rects", 1, 0)
  /\ downMouse = <<100, 380>>
  /\ prevMouse = <<150, 380>>
  /\ rects[1].center = <<150, 380>>
  /\ \A n \in 1..4 :
       rects[1].midPoints[n] = VAdd(downGeometry.rects[1].midPoints[n], <<50, 0>>)

\* A step of runanimation: one that is not a keydown, made while a call of
\* runanimation is pending.
RunStep == requested # "none" /\ keys' = keys

\* C27: every call of runanimation runs draw to its end and requests the
\* next frame, so a call of runanimation is pending at all times, and the
\* vertex the keys have selected is, again and again, the pivot of the
\* frame drawn last.
C27_AnimationKeepsRunning ==
  /\ [][RunStep => (drawDone' /\ requested' = "frame")]_vars
  /\ [](requested # "none")
  /\ []<>(pivot = vertice)

====
